---- MODULE Spec2Model ----
(***************************************************************************)
(* A model of the light client's proof verification engine and per-peer   *)
(* prove-state machine (SendLastStateProofProcess::execute and the pure    *)
(* verification functions it calls).                                       *)
(*                                                                         *)
(* Scaling.  256-bit difficulties are modelled with U256Bits bits, and a   *)
(* compact target is a scaled nBits value (exponent * 16 + mantissa).      *)
(* Hashes are names.  An Option is a sequence of length 0 or 1.            *)
(***************************************************************************)
EXTENDS Integers, Sequences, FiniteSets, TLC

\* ------------------------------------------------------------------ bounds

\* The longest header list a response carries.
MaxHeaders == 3

\* The width of the model's U256.
U256Bits == 8

\* The number of last headers a response carries (last_n_blocks), and the
\* epoch from which headers carry a chain root (mmr_activated_epoch): both
\* are set by the configuration of the client.
LastNBlocks == 2

MmrActivatedEpoch == 0

\* ---------------------------------------------------------------- constants

\* ckb_constant::consensus::TAU
TAU == 2

\* ------------------------------------------------------------------ Option

None == <<>>

Some(x) == <<x>>

IsSome(o) == Len(o) = 1

Unwrap(o) == o[1]

\* -------------------------------------------------------------------- U256

U256Modulus == 2 ^ U256Bits

U256Max == U256Modulus - 1

\* The variant wraps around instead.
saturating_mul_wrapping(a, b) == (a * b) % U256Modulus

saturating_mul(a, b) == IF a * b > U256Max THEN U256Max ELSE a * b

\* A variant of the operator `*` that stops at the largest value.
U256MulSaturating(a, b) == IF a * b > U256Max THEN U256Max ELSE a * b

\* The operator `*` of the fixed-width integer keeps the low bits.
U256Mul(a, b) == (a * b) % U256Modulus

\* The operator `+` of the fixed-width integer keeps the low bits.
U256Add(a, b) == (a + b) % U256Modulus

\* checked_add: None on overflow.
checked_add(a, b) == IF a + b > U256Max THEN None ELSE Some(a + b)

\* ------------------------------------------------- compact target decoding

\* compact_to_target: <<target, overflow>> of mantissa * 2^exponent.
compact_to_target(compact) ==
    LET exponent == compact \div 16
        mantissa == compact % 16
        target   == mantissa * (2 ^ exponent)
    IN  IF target > U256Max THEN <<0, TRUE>> ELSE <<target, FALSE>>

target_to_difficulty(target) ==
    IF target = 1 THEN U256Max ELSE U256Modulus \div target

compact_to_difficulty(compact) ==
    LET t == compact_to_target(compact)
    IN  IF t[1] = 0 \/ t[2] THEN 0 ELSE target_to_difficulty(t[1])

\* ---------------------------------------------------- EpochDifficultyTrend

EpochDifficultyTrend(start_epoch_difficulty, end_epoch_difficulty) ==
    IF start_epoch_difficulty = end_epoch_difficulty
    THEN [kind |-> "Unchanged", start |-> start_epoch_difficulty, end |-> end_epoch_difficulty]
    ELSE IF start_epoch_difficulty < end_epoch_difficulty
    THEN [kind |-> "Increased", start |-> start_epoch_difficulty, end |-> end_epoch_difficulty]
    ELSE [kind |-> "Decreased", start |-> start_epoch_difficulty, end |-> end_epoch_difficulty]

\* n rounds of `x = x.saturating_mul(tau)`.
RECURSIVE MulTimes(_, _, _)
MulTimes(x, tau, n) == IF n = 0 THEN x ELSE MulTimes(saturating_mul(x, tau), tau, n - 1)

\* n rounds of `x /= tau`.
RECURSIVE DivTimes(_, _, _)
DivTimes(x, tau, n) == IF n = 0 THEN x ELSE DivTimes(x \div tau, tau, n - 1)

\* A variant of check_tau that allows one epoch switch more.
check_tau_one_more(trend, tau, epochs_switch_count) ==
    CASE trend.kind = "Unchanged" -> TRUE
      [] trend.kind = "Increased" ->
             trend.end <= MulTimes(trend.start, tau, epochs_switch_count + 1)
      [] trend.kind = "Decreased" ->
             trend.end >= DivTimes(trend.start, tau, epochs_switch_count + 1)

check_tau(trend, tau, epochs_switch_count) ==
    CASE trend.kind = "Unchanged" -> TRUE
      [] trend.kind = "Increased" -> trend.end <= MulTimes(trend.start, tau, epochs_switch_count)
      [] trend.kind = "Decreased" -> trend.end >= DivTimes(trend.start, tau, epochs_switch_count)

\* The loop `for k in k..limit` of the Increased arm.
RECURSIVE TauExponentIncreased(_, _, _, _, _)
TauExponentIncreased(tmp, end, tau, k, limit) ==
    IF k >= limit THEN None
    ELSE LET next == saturating_mul(tmp, tau)
         IN  IF next >= end THEN Some(k)
             ELSE TauExponentIncreased(next, end, tau, k + 1, limit)

\* The loop `for k in k..limit` of the Decreased arm.
RECURSIVE TauExponentDecreased(_, _, _, _, _)
TauExponentDecreased(tmp, end, tau, k, limit) ==
    IF k >= limit THEN None
    ELSE LET next == tmp \div tau
         IN  IF next <= end THEN Some(k)
             ELSE TauExponentDecreased(next, end, tau, k + 1, limit)

\* A variant that looks at the difficulty before it is multiplied or divided.
calculate_tau_exponent_from_start(trend, tau, limit) ==
    CASE trend.kind = "Unchanged" -> Some(0)
      [] trend.kind = "Increased" ->
             IF limit > 0 /\ trend.start >= trend.end THEN Some(0)
             ELSE TauExponentIncreased(saturating_mul(trend.start, tau), trend.end,
                                       tau, 1, limit)
      [] trend.kind = "Decreased" ->
             IF limit > 0 /\ trend.start <= trend.end THEN Some(0)
             ELSE TauExponentDecreased(trend.start \div tau, trend.end, tau, 1, limit)

calculate_tau_exponent(trend, tau, limit) ==
    CASE trend.kind = "Unchanged" -> Some(0)
      [] trend.kind = "Increased" -> TauExponentIncreased(trend.start, trend.end, tau, 0, limit)
      [] trend.kind = "Decreased" -> TauExponentDecreased(trend.start, trend.end, tau, 0, limit)

\* EpochCountGroupByTrend
Group(kind, count) == [kind |-> kind, count |-> count]

\* A variant of split_epochs that halves n + 1 in every arm.
split_epochs_half_of_all(trend, limit, n, k) ==
    LET half == (n + 1) \div 2
        pair ==
          CASE limit = "Min" /\ trend.kind = "Unchanged" -> <<n - half, half>>
            [] limit = "Max" /\ trend.kind = "Unchanged" -> <<half, n - half>>
            [] limit = "Min" /\ trend.kind = "Increased" -> <<n - half, half>>
            [] limit = "Max" /\ trend.kind = "Increased" -> <<half + k, n - (half + k)>>
            [] limit = "Min" /\ trend.kind = "Decreased" -> <<n - (half + k), half + k>>
            [] limit = "Max" /\ trend.kind = "Decreased" -> <<half, n - half>>
        increased == pair[1]
        decreased == pair[2]
    IN  IF limit = "Min"
        THEN [start |-> Group("Decreased", decreased), end |-> Group("Increased", increased)]
        ELSE [start |-> Group("Increased", increased), end |-> Group("Decreased", decreased)]

\* split_epochs: the counts are u64; a negative count here is an underflow there.
split_epochs(trend, limit, n, k) ==
    LET half == (n - k + 1) \div 2
        pair ==
          CASE limit = "Min" /\ trend.kind = "Unchanged" ->
                 LET decreased == (n + 1) \div 2 IN <<n - decreased, decreased>>
            [] limit = "Max" /\ trend.kind = "Unchanged" ->
                 LET increased == (n + 1) \div 2 IN <<increased, n - increased>>
            [] limit = "Min" /\ trend.kind = "Increased" ->
                 LET decreased == half IN <<n - decreased, decreased>>
            [] limit = "Max" /\ trend.kind = "Increased" ->
                 LET increased == half + k IN <<increased, n - increased>>
            [] limit = "Min" /\ trend.kind = "Decreased" ->
                 LET decreased == half + k IN <<n - decreased, decreased>>
            [] limit = "Max" /\ trend.kind = "Decreased" ->
                 LET increased == half IN <<increased, n - increased>>
        increased == pair[1]
        decreased == pair[2]
    IN  IF limit = "Min"
        THEN [start |-> Group("Decreased", decreased), end |-> Group("Increased", increased)]
        ELSE [start |-> Group("Increased", increased), end |-> Group("Decreased", decreased)]

subtract1(group) == Group(group.kind, group.count - 1)

\* A variant that always takes the epoch from the second group.
remove_last_epoch_from_end(details) ==
    [start |-> details.start, end |-> subtract1(details.end)]

remove_last_epoch(details) ==
    IF details.end.count = 0
    THEN [start |-> subtract1(details.start), end |-> details.end]
    ELSE [start |-> details.start, end |-> subtract1(details.end)]

total_epochs_count(details) == details.start.count + details.end.count

\* One group of calculate_total_difficulty_limit, from the running
\* [curr, total, overflow]; the overflow of the running sum panics.
RECURSIVE LimitGroup(_, _, _, _)
LimitGroup(acc, kind, count, tau) ==
    IF count <= 0 \/ acc.overflow THEN acc
    ELSE LET curr == IF kind = "Decreased" THEN acc.curr \div tau
                     ELSE saturating_mul(acc.curr, tau)
             sum  == checked_add(acc.total, curr)
         IN  IF IsSome(sum)
             THEN LimitGroup([curr |-> curr, total |-> Unwrap(sum), overflow |-> FALSE],
                             kind, count - 1, tau)
             ELSE [curr |-> curr, total |-> acc.total, overflow |-> TRUE]

\* A variant that sums over the first group only.
calculate_total_difficulty_limit_first_group(start_epoch_difficulty, tau, details) ==
    LET a0 == [curr |-> start_epoch_difficulty, total |-> 0, overflow |-> FALSE]
        a1 == LimitGroup(a0, details.start.kind, details.start.count, tau)
    IN  [total |-> a1.total, overflow |-> a1.overflow]

calculate_total_difficulty_limit(start_epoch_difficulty, tau, details) ==
    LET a0 == [curr |-> start_epoch_difficulty, total |-> 0, overflow |-> FALSE]
        a1 == LimitGroup(a0, details.start.kind, details.start.count, tau)
        a2 == LimitGroup(a1, details.end.kind, details.end.count, tau)
    IN  [total |-> a2.total, overflow |-> a2.overflow]

\* ------------------------------------------------------------- verify_tau

\* A variant of verify_tau that compares the compact targets in every case.
verify_tau_same_target(start_epoch, start_compact_target, end_epoch, end_compact_target, tau) ==
    IF start_compact_target # end_compact_target
    THEN [status |-> "InvalidCompactTarget", result |-> FALSE]
    ELSE [status |-> "OK", result |-> TRUE]

\* Result<bool, Status>: status "OK" carries the verdict in `result`.  The
\* u64 subtraction of the epoch numbers cannot go below zero.
verify_tau(start_epoch, start_compact_target, end_epoch, end_compact_target, tau) ==
    IF start_epoch.number = end_epoch.number
    THEN IF start_compact_target # end_compact_target
         THEN [status |-> "InvalidCompactTarget", result |-> FALSE]
         ELSE [status |-> "OK", result |-> TRUE]
    ELSE IF end_epoch.number < start_epoch.number
    THEN [status |-> "Panic", result |-> FALSE]
    ELSE LET start_block_difficulty == compact_to_difficulty(start_compact_target)
             end_block_difficulty   == compact_to_difficulty(end_compact_target)
             start_epoch_difficulty == U256Mul(start_block_difficulty, start_epoch.length)
             end_epoch_difficulty   == U256Mul(end_block_difficulty, end_epoch.length)
             epochs_switch_count    == end_epoch.number - start_epoch.number
             epoch_difficulty_trend ==
                 EpochDifficultyTrend(start_epoch_difficulty, end_epoch_difficulty)
         IN  [status |-> "OK",
              result |-> check_tau(epoch_difficulty_trend, tau, epochs_switch_count)]

\* ------------------------------------------------ verify_total_difficulty

\* The branch of verify_total_difficulty for two different epoch numbers.
TotalDifficultyAcrossEpochs(start_epoch, start_block_difficulty, end_epoch, end_compact_target, total_difficulty, tau) ==
    LET end_block_difficulty   == compact_to_difficulty(end_compact_target)
        start_epoch_difficulty == U256Mul(start_block_difficulty, start_epoch.length)
        end_epoch_difficulty   == U256Mul(end_block_difficulty, end_epoch.length)
        epochs_switch_count    == end_epoch.number - start_epoch.number
        epoch_difficulty_trend ==
            EpochDifficultyTrend(start_epoch_difficulty, end_epoch_difficulty)
        exponent == calculate_tau_exponent(epoch_difficulty_trend, tau, epochs_switch_count)
        start_epoch_blocks_count == start_epoch.length - start_epoch.index - 1
        end_epoch_blocks_count   == end_epoch.index + 1
        unaligned_difficulty_calculated ==
            U256Add(U256Mul(start_block_difficulty, start_epoch_blocks_count),
                    U256Mul(end_block_difficulty, end_epoch_blocks_count))
    IN  IF epochs_switch_count < 0 THEN "Underflow"
        ELSE IF ~IsSome(exponent) THEN "Err"
        ELSE IF start_epoch_blocks_count < 0 THEN "Underflow"
        ELSE IF epochs_switch_count = 1
        THEN IF total_difficulty # unaligned_difficulty_calculated THEN "Err" ELSE "Ok"
        ELSE LET n == epochs_switch_count
                 k == Unwrap(exponent)
                 aligned_difficulty_min ==
                     calculate_total_difficulty_limit(start_epoch_difficulty, tau,
                         remove_last_epoch(split_epochs(epoch_difficulty_trend, "Min", n, k)))
                 aligned_difficulty_max ==
                     calculate_total_difficulty_limit(start_epoch_difficulty, tau,
                         remove_last_epoch(split_epochs(epoch_difficulty_trend, "Max", n, k)))
                 total_difficulity_min ==
                     U256Add(unaligned_difficulty_calculated, aligned_difficulty_min.total)
                 total_difficulity_max ==
                     U256Add(unaligned_difficulty_calculated, aligned_difficulty_max.total)
             IN  IF aligned_difficulty_min.overflow \/ aligned_difficulty_max.overflow
                 THEN "Panic"
                 ELSE IF total_difficulty < total_difficulity_min
                         \/ total_difficulty > total_difficulity_max
                 THEN "Err" ELSE "Ok"

\* Result<(), String> as "Ok" or "Err"; "Panic" is the abort on the overflow
\* of the running sum, "Underflow" a u64 subtraction below zero.
verify_total_difficulty(start_epoch, start_compact_target, start_total_difficulty, end_epoch, end_compact_target, end_total_difficulty, tau) ==
    IF start_total_difficulty > end_total_difficulty THEN "Err"
    ELSE LET total_difficulty == end_total_difficulty - start_total_difficulty
             start_block_difficulty == compact_to_difficulty(start_compact_target)
         IN  IF start_epoch.number = end_epoch.number
             THEN IF end_epoch.index < start_epoch.index THEN "Underflow"
                  ELSE LET total_blocks_count == end_epoch.index - start_epoch.index
                           total_difficulty_calculated ==
                               U256Mul(start_block_difficulty, total_blocks_count)
                       IN  IF total_difficulty # total_difficulty_calculated
                           THEN "Err" ELSE "Ok"
             ELSE TotalDifficultyAcrossEpochs(start_epoch, start_block_difficulty,
                      end_epoch, end_compact_target, total_difficulty, tau)

\* ------------------------------------------- check_if_response_is_matched

\* Ok((reorg_count, sampled_count, last_n_count)); the variant counts the
\* reorg headers among the last-n headers.
MatchedWithoutReorg(reorg_count, sampled_count, last_n_count) ==
    [ok |-> TRUE, status |-> "OK", reorg_count |-> 0,
     sampled_count |-> sampled_count, last_n_count |-> last_n_count]

Matched(reorg_count, sampled_count, last_n_count) ==
    [ok |-> TRUE, status |-> "OK", reorg_count |-> reorg_count,
     sampled_count |-> sampled_count, last_n_count |-> last_n_count]

Mismatched(status) ==
    [ok |-> FALSE, status |-> status, reorg_count |-> 0,
     sampled_count |-> 0, last_n_count |-> 0]

\* A variant that takes no header for a reorg header.
ReorgCountNone(headers, start_number) == 0

\* headers.iter().take_while(|h| h.number() < start_number).count()
ReorgCount(headers, start_number) ==
    Cardinality({i \in 1..Len(headers) :
                    \A j \in 1..i : headers[j].number < start_number})

\* headers.iter().take_while(|h| h.total_difficulty() < difficulty_boundary).count()
BeforeBoundaryCount(headers, difficulty_boundary) ==
    Cardinality({i \in 1..Len(headers) :
                    \A j \in 1..i : headers[j].total_difficulty < difficulty_boundary})

\* difficulties.take_while(|d| d < first_last_n_total_difficulty)
RECURSIVE TakeWhileBelow(_, _)
TakeWhileBelow(difficulties, bound) ==
    IF difficulties = <<>> \/ ~(Head(difficulties) < bound) THEN <<>>
    ELSE <<Head(difficulties)>> \o TakeWhileBelow(Tail(difficulties), bound)

\* A variant of the loop below that takes a header for a sample without
\* looking at its parent's total difficulty.
RECURSIVE ConsumeSamplesAnyParent(_, _, _, _)
ConsumeSamplesAnyParent(difficulties, parent, current, is_valid) ==
    IF difficulties = <<>> THEN [difficulties |-> difficulties, is_valid |-> is_valid]
    ELSE LET diff == Head(difficulties)
         IN  IF diff <= current
             THEN ConsumeSamplesAnyParent(Tail(difficulties), parent, current, TRUE)
             ELSE [difficulties |-> difficulties, is_valid |-> is_valid]

\* The `while let Some(diff) = difficulties.first()` loop for one sampled
\* header: the difficulties left and whether the header is a valid sample.
RECURSIVE ConsumeSamples(_, _, _, _)
ConsumeSamples(difficulties, parent, current, is_valid) ==
    IF difficulties = <<>> THEN [difficulties |-> difficulties, is_valid |-> is_valid]
    ELSE LET diff == Head(difficulties)
         IN  IF is_valid
             THEN IF diff <= current
                  THEN ConsumeSamples(Tail(difficulties), parent, current, TRUE)
                  ELSE [difficulties |-> difficulties, is_valid |-> TRUE]
             ELSE IF parent < diff /\ diff <= current
                  THEN ConsumeSamples(Tail(difficulties), parent, current, TRUE)
                  ELSE [difficulties |-> difficulties, is_valid |-> FALSE]

\* The `for item in &headers[reorg_count..reorg_count + sampled_count]` loop.
RECURSIVE WalkSampled(_, _)
WalkSampled(sampled, difficulties) ==
    IF sampled = <<>> THEN [ok |-> TRUE, difficulties |-> difficulties]
    ELSE LET item == Head(sampled)
             r == ConsumeSamples(difficulties, item.parent_td, item.total_difficulty, FALSE)
         IN  IF ~r.is_valid THEN [ok |-> FALSE, difficulties |-> r.difficulties]
             ELSE WalkSampled(Tail(sampled), r.difficulties)

\* A variant of the split that does not look at the difficulty boundary.
SplitCountsNoBoundary(last_n_blocks, difficulty_boundary, headers, reorg_count) ==
    LET total_count == Len(headers)
    IN  IF total_count - reorg_count > last_n_blocks
        THEN <<total_count - reorg_count - last_n_blocks, last_n_blocks>>
        ELSE <<0, total_count - reorg_count>>

\* The split of the headers after the reorg prefix into sampled and last-n.
\* <<sampled_count, last_n_count>>; a negative sampled_count is the usize
\* subtraction below zero.
SplitCounts(last_n_blocks, difficulty_boundary, headers, reorg_count) ==
    LET total_count == Len(headers)
    IN  IF total_count - reorg_count > last_n_blocks
        THEN LET before_boundary_count == BeforeBoundaryCount(headers, difficulty_boundary)
                 last_n_count == total_count - before_boundary_count
             IN  IF last_n_count > last_n_blocks
                 THEN <<before_boundary_count - reorg_count, last_n_count>>
                 ELSE <<total_count - reorg_count - last_n_blocks, last_n_blocks>>
        ELSE <<0, total_count - reorg_count>>

\* A variant of the check below that does not look at the difficulties left.
CheckSamplesOnly(prev_request, headers, reorg_count, sampled_count) ==
    WalkSampled(SubSeq(headers, reorg_count + 1, reorg_count + sampled_count),
                TakeWhileBelow(prev_request.difficulties,
                               headers[reorg_count + sampled_count + 1].total_difficulty)).ok

\* The check of the sampled headers against the requested difficulties.
CheckSamples(prev_request, headers, reorg_count, sampled_count) ==
    LET first_last_n_header == headers[reorg_count + sampled_count + 1]
        first_last_n_total_difficulty == first_last_n_header.total_difficulty
        difficulties == TakeWhileBelow(prev_request.difficulties,
                                       first_last_n_total_difficulty)
        walked == WalkSampled(SubSeq(headers, reorg_count + 1, reorg_count + sampled_count),
                              difficulties)
    IN  IF ~walked.ok THEN FALSE
        ELSE IF walked.difficulties # <<>>
        THEN ~(Head(walked.difficulties) <= first_last_n_header.parent_td)
        ELSE TRUE

\* A variant of the checks of the reorg headers that does not look at where
\* they end.
CheckReorgHeadersCountOnly(last_n_blocks, headers, start_number, reorg_count) ==
    IF reorg_count # 0 /\ reorg_count # last_n_blocks /\ headers[1].number # 1
    THEN "InvalidReorgHeaders"
    ELSE "OK"

\* The checks of the reorg headers: "OK" or "InvalidReorgHeaders".
CheckReorgHeaders(last_n_blocks, headers, start_number, reorg_count) ==
    IF reorg_count # 0 /\ reorg_count # last_n_blocks /\ headers[1].number # 1
    THEN "InvalidReorgHeaders"
    ELSE IF reorg_count # 0 /\ headers[reorg_count].number # start_number - 1
    THEN "InvalidReorgHeaders"
    ELSE "OK"

\* A variant that looks at the first of the last-n headers only.
CheckAllNewBlocksFirstOnly(headers, reorg_count, start_number, last_header) ==
    headers[reorg_count + 1].number = start_number

\* "If no sampled headers, the last_n_blocks should be all new blocks."
CheckAllNewBlocks(headers, reorg_count, start_number, last_header) ==
    /\ headers[reorg_count + 1].number = start_number
    /\ headers[Len(headers)].number + 1 = last_header.number

\* check_if_response_is_matched once the headers are known to be sorted.
MatchSorted(last_n_blocks, prev_request, headers, last_header) ==
    LET start_number == prev_request.start_number
        reorg_count  == ReorgCount(headers, start_number)
        counts == SplitCounts(last_n_blocks, prev_request.difficulty_boundary,
                              headers, reorg_count)
        sampled_count == counts[1]
        last_n_count  == counts[2]
    IN  IF CheckReorgHeaders(last_n_blocks, headers, start_number, reorg_count) # "OK"
        THEN Mismatched("InvalidReorgHeaders")
        ELSE IF sampled_count < 0
        THEN Mismatched("Panic")
        ELSE IF sampled_count = 0
        THEN IF last_n_count > 0
                /\ ~CheckAllNewBlocks(headers, reorg_count, start_number, last_header)
             THEN Mismatched("MalformedProtocolMessage")
             ELSE Matched(reorg_count, sampled_count, last_n_count)
        ELSE IF CheckSamples(prev_request, headers, reorg_count, sampled_count)
             THEN Matched(reorg_count, sampled_count, last_n_count)
             ELSE Mismatched("InvalidSamples")

\* A variant that checks the order of the first two headers only.
check_if_response_is_matched_first_pair(last_n_blocks, prev_request, headers, last_header) ==
    IF headers = <<>> THEN Mismatched("MalformedProtocolMessage")
    ELSE IF Len(headers) > 1 /\ headers[1].number >= headers[2].number
    THEN Mismatched("MalformedProtocolMessage")
    ELSE MatchSorted(last_n_blocks, prev_request, headers, last_header)

check_if_response_is_matched(last_n_blocks, prev_request, headers, last_header) ==
    IF headers = <<>> THEN Mismatched("MalformedProtocolMessage")
    ELSE IF \E i \in 1..(Len(headers) - 1) : headers[i].number >= headers[i + 1].number
    THEN Mismatched("MalformedProtocolMessage")
    ELSE MatchSorted(last_n_blocks, prev_request, headers, last_header)

\* ------------------------------------------------ check_continuous_headers

\* HeaderView::is_parent_of
is_parent_of(parent, child) ==
    /\ parent.hash = child.parent_hash
    /\ child.number = parent.number + 1
    /\ \/ /\ child.epoch.number = parent.epoch.number
          /\ child.epoch.index = parent.epoch.index + 1
          /\ child.epoch.length = parent.epoch.length
       \/ /\ child.epoch.number = parent.epoch.number + 1
          /\ child.epoch.index = 0
          /\ parent.epoch.index + 1 = parent.epoch.length

\* "OK" or "InvalidParentBlock"
check_continuous_headers(headers) ==
    IF \E i \in 1..(Len(headers) - 1) : ~is_parent_of(headers[i], headers[i + 1])
    THEN "InvalidParentBlock" ELSE "OK"

\* --------------------------------------------------------- verify_mmr_proof

\* VerifiableHeader::is_valid
is_valid(header, mmr_activated_epoch) ==
    header.epoch.number >= mmr_activated_epoch /\ header.extra_hash_ok

\* MMRProof::verify against the parent chain root of the tip, which commits to
\* the leaves named in `chain_root`: the verifier's answer, or "Err".
\*   "empty"     no sibling nodes: the supplied leaves must be all the leaves
\*   "honest"    the sibling nodes of the supplied headers
\*   "forged"    sibling nodes that do not hash to the root
\*   "malformed" nodes the verifier cannot merge
ProofVerify(proof, chain_root, headers) ==
    LET supplied == {headers[i].hash : i \in 1..Len(headers)}
    IN  CASE proof = "malformed" -> "Err"
          [] proof = "forged"    -> "false"
          [] proof = "honest"    -> IF supplied \subseteq chain_root THEN "true" ELSE "false"
          [] proof = "empty"     -> IF supplied = chain_root THEN "true" ELSE "false"

\* A variant that does not verify the digests of the headers.
verify_mmr_proof_unverified_digests(mmr_activated_epoch, last_header, raw_proof, headers) ==
    IF ~is_valid(last_header, mmr_activated_epoch) THEN "InvalidProof"
    ELSE IF ProofVerify(raw_proof, last_header.chain_root, headers) = "true"
    THEN "OK" ELSE "InvalidProof"

\* "OK" or "InvalidProof"
verify_mmr_proof(mmr_activated_epoch, last_header, raw_proof, headers) ==
    IF ~is_valid(last_header, mmr_activated_epoch) THEN "InvalidProof"
    ELSE IF \E i \in 1..Len(headers) : ~headers[i].digest_ok THEN "InvalidProof"
    ELSE IF ProofVerify(raw_proof, last_header.chain_root, headers) = "true"
    THEN "OK" ELSE "InvalidProof"

\* ------------------------------------------------------- the block universe

\* Every epoch of the universe has three blocks.
EpochOf(number) == [number |-> number \div 3, index |-> number % 3, length |-> 3]

Header(hash, parent_hash, number, compact_target, total_difficulty, parent_td, chain_root) ==
    [hash |-> hash, parent_hash |-> parent_hash, number |-> number,
     epoch |-> EpochOf(number), compact_target |-> compact_target,
     total_difficulty |-> total_difficulty, parent_td |-> parent_td,
     chain_root |-> chain_root, chain_root_ok |-> TRUE, pow_ok |-> TRUE,
     digest_ok |-> TRUE, extra_hash_ok |-> TRUE]

\* Chain A, blocks 0..6: the compact target of each block and its hash.
CompactA == <<40, 40, 40, 24, 24, 24, 24>>

HashA == <<"A0", "A1", "A2", "A3", "A4", "A5", "A6">>

RECURSIVE TdA(_)
TdA(n) == IF n < 0 THEN 0 ELSE TdA(n - 1) + compact_to_difficulty(CompactA[n + 1])

RootA(n) == {HashA[i + 1] : i \in 0..(n - 1)}

A(n) == Header(HashA[n + 1], IF n = 0 THEN "" ELSE HashA[n], n, CompactA[n + 1],
               TdA(n), TdA(n - 1), RootA(n))

\* Chain B leaves chain A after block 3 with the same difficulty.
B4 == Header("B4", "A3", 4, CompactA[5], TdA(4), TdA(3), RootA(4))

B5 == Header("B5", "B4", 5, CompactA[6], TdA(5), TdA(4), RootA(4) \cup {"B4"})

B6 == Header("B6", "B5", 6, CompactA[7], TdA(6), TdA(5), RootA(4) \cup {"B4", "B5"})

\* Chain T leaves chain A after block 4 and raises the difficulty fourfold
\* inside the epoch.
CompactT == 0 * 16 + 4

T5 == Header("T5", "A4", 5, CompactT, TdA(4) + compact_to_difficulty(CompactT),
             TdA(4), RootA(5))

T6 == Header("T6", "T5", 6, CompactT, TdA(4) + 2 * compact_to_difficulty(CompactT),
             TdA(4) + compact_to_difficulty(CompactT), RootA(5) \cup {"T5"})

\* A block after A4 without proof of work.
W5 == [A(5) EXCEPT !.hash = "W5", !.pow_ok = FALSE]

\* The headers a response may list, and the tips a peer may advertise.
ListBlocks == {A(0), A(1), A(2), A(3), A(4), A(5), B4, B5, T5, W5}

Tips == {A(3), A(6), B6, T6}

\* A tip whose extra hash does not commit to its chain root.
X6 == [A(6) EXCEPT !.hash = "X6", !.extra_hash_ok = FALSE]

BadTips == {X6}

\* The strictly increasing lists of at most n headers.
RECURSIVE IncreasingLists(_)
IncreasingLists(n) ==
    IF n = 0 THEN {<<>>}
    ELSE LET shorter == IncreasingLists(n - 1)
         IN  shorter \cup
             {Append(l, h) : <<l, h>> \in
                 {x \in shorter \X ListBlocks :
                     x[1] = <<>> \/ x[1][Len(x[1])].number < x[2].number}}

\* Lists that are not strictly increasing.
UnsortedLists ==
    {<<g, h>> : <<g, h>> \in
        {x \in ListBlocks \X ListBlocks : x[1].number >= 4 /\ x[1].number >= x[2].number}}

HeaderLists == IncreasingLists(MaxHeaders) \cup UnsortedLists

ProofKinds == {"empty", "honest", "forged", "malformed"}

\* A response for another tip than the requested one is answered before its
\* headers are read: two lists stand for all of them.
UnreadLists == {<<>>, <<A(4), A(5)>>}

\* Every list is tried with the sibling nodes of its headers and with forged
\* ones; two lists are tried with every kind of proof.
ProbeLists == {<<A(4), A(5)>>, <<A(0), A(1), A(2)>>}

Message(last_header, proof, headers) ==
    [last_header |-> last_header, proof |-> proof, headers |-> headers]

\* The sampling plans of a request: a boundary and the sampled difficulties,
\* placed relative to the total difficulties of chain A.
SampleChoices ==
    {[difficulty_boundary |-> TdA(4) - 6, difficulties |-> <<TdA(3) - 10>>],
     [difficulty_boundary |-> TdA(4) - 6, difficulties |-> <<TdA(0) - 3, TdA(3) - 10>>],
     [difficulty_boundary |-> TdA(3) - 10, difficulties |-> <<TdA(0) - 3>>]}

\* ------------------------------------------------------------ peer state

PeerIds == {"p1"}

\* GetLastStateProof: the content of a sampling request.
Content(start_number, choice) ==
    [start_number |-> start_number,
     difficulty_boundary |-> choice.difficulty_boundary,
     difficulties |-> choice.difficulties]

\* ProveRequest::new
ProveRequestNew(last_header, content) ==
    [last_header |-> last_header, content |-> content,
     skip_check_tau |-> FALSE, long_fork_detected |-> FALSE]

\* ProveRequest::if_skip_check_tau, and a variant that forgets the flag.
if_skip_check_tau_forgotten(request) == FALSE

if_skip_check_tau(request) == request.skip_check_tau

\* ProveRequest::skip_check_tau, and a variant that leaves the flag unset.
skip_check_tau_unset(request) == request

skip_check_tau(request) == [request EXCEPT !.skip_check_tau = TRUE]

\* ProveRequest::long_fork_detected
long_fork_detected(request) == [request EXCEPT !.long_fork_detected = TRUE]

\* ProveRequest::is_same_as
is_same_as(request, last_header) == request.last_header = last_header

\* The request for the proof of a trusted state, and its completion with the
\* header the peer answers with.
TrustedRequest(trusted_hash, content) ==
    [trusted_hash |-> trusted_hash, content |-> content]

complete(trusted_request, last_header) ==
    ProveRequestNew(last_header, trusted_request.content)

\* ProveState::new_from_request, and a variant that takes the tip from the
\* listed headers instead of the request.
new_from_request_listed_tip(request, reorg_last_headers, last_headers) ==
    [last_header |-> IF last_headers = <<>> THEN request.last_header
                     ELSE last_headers[Len(last_headers)],
     reorg_last_headers |-> reorg_last_headers,
     last_headers |-> last_headers]

new_from_request(request, reorg_last_headers, last_headers) ==
    [last_header |-> request.last_header,
     reorg_last_headers |-> reorg_last_headers,
     last_headers |-> last_headers]

\* PeerState::default
DefaultPeerState ==
    [prove_request |-> None, prove_request_for_trusted_state |-> None,
     prove_state |-> None]

\* PeerState::submit_prove_request
submit_prove_request(state, request) ==
    [state EXCEPT !.prove_request = Some(request)]

\* PeerState::commit_prove_state; the commit also ends a trusted-state request.
\* The variant keeps the request.
commit_prove_state_keeps_request(state, prove_state) ==
    [state EXCEPT !.prove_state = Some(prove_state)]

commit_prove_state(state, prove_state) ==
    [state EXCEPT !.prove_state = Some(prove_state),
                  !.prove_request = None,
                  !.prove_request_for_trusted_state = None]

\* Peers::add_peer
add_peer(ps, index) == [ps EXCEPT ![index] = Some(DefaultPeerState)]

\* Peers::remove_peer
remove_peer(ps, index) == [ps EXCEPT ![index] = None]

\* Peers::get_state
get_state(ps, index) == ps[index]

\* Peers::submit_prove_request (update_prove_request): nothing without the peer.
\* The variant inserts a slot for a peer it does not find.
update_prove_request_inserting(ps, index, request) ==
    [ps EXCEPT ![index] = Some(submit_prove_request(
        IF IsSome(ps[index]) THEN Unwrap(ps[index]) ELSE DefaultPeerState, request))]

update_prove_request(ps, index, request) ==
    IF IsSome(ps[index])
    THEN [ps EXCEPT ![index] = Some(submit_prove_request(Unwrap(ps[index]), request))]
    ELSE ps

\* Peers::commit_prove_state: nothing without the peer.
PeersCommitProveState(ps, index, state) ==
    IF IsSome(ps[index])
    THEN [ps EXCEPT ![index] = Some(commit_prove_state(Unwrap(ps[index]), state))]
    ELSE ps

\* Peers::get_peers_which_are_proved
get_peers_which_are_proved(ps) ==
    {index \in DOMAIN ps : IsSome(ps[index]) /\ IsSome(Unwrap(ps[index]).prove_state)}

\* ------------------------------------------------- the protocol's services

\* build_prove_request_content: the next request starts at the tip of the
\* peer's prove state, or at genesis without one; it may not be built.
build_prove_request_content(peer_state, last_header) ==
    LET start_number == IF IsSome(peer_state.prove_state)
                        THEN Unwrap(peer_state.prove_state).last_header.number
                        ELSE 0
    IN  {None} \cup {Some(Content(start_number, c)) : c \in SampleChoices}

\* build_prove_request_content_from_genesis
build_prove_request_content_from_genesis(last_header) ==
    {None} \cup {Some(Content(0, c)) : c \in SampleChoices}

\* check_chain_root_for_headers
check_chain_root_for_headers(headers) ==
    IF \E i \in 1..Len(headers) : ~headers[i].chain_root_ok
    THEN "InvalidChainRoot" ELSE "OK"

\* check_pow_for_headers
check_pow_for_headers(headers) ==
    IF \E i \in 1..Len(headers) : ~headers[i].pow_ok
    THEN "InvalidNonce" ELSE "OK"

\* check_verifiable_header
check_verifiable_header(header) ==
    IF is_valid(header, MmrActivatedEpoch) THEN "OK" ELSE "InvalidChainRoot"

\* The headers a prove state knows: its last headers and its tip.
KnownHashes(prove_state) ==
    {prove_state.last_headers[i].hash : i \in 1..Len(prove_state.last_headers)}
        \cup {prove_state.last_header.hash}

AllHeaders(prove_state) ==
    {prove_state.reorg_last_headers[i] : i \in 1..Len(prove_state.reorg_last_headers)}
        \cup {prove_state.last_headers[i] : i \in 1..Len(prove_state.last_headers)}
        \cup {prove_state.last_header}

\* The new state has another block than the old one at some height, and its
\* reorg headers do not reach back to a block the old state knows.
InconsistentHistory(old_state, new_state) ==
    /\ \E g \in AllHeaders(old_state), h \in AllHeaders(new_state) :
          g.number = h.number /\ g.hash # h.hash
    /\ ~\E i \in 1..Len(new_state.reorg_last_headers) :
          new_state.reorg_last_headers[i].hash \in KnownHashes(old_state)

\* The commit detects a long fork against the previous prove state: the total
\* difficulty went down, or the histories are inconsistent.
LongForkDetected(peer_state, new_state) ==
    /\ IsSome(peer_state.prove_state)
    /\ LET old_state == Unwrap(peer_state.prove_state)
       IN  \/ new_state.last_header.total_difficulty
                 < old_state.last_header.total_difficulty
           \/ InconsistentHistory(old_state, new_state)

\* ------------------------------------- SendLastStateProofProcess::execute

\* What the verification of one response comes to, before the peer's state
\* is touched:
\*   "return"     return `status`
\*   "last_state" the response carries a new last state and no proof
\*   "tau"        every check passed except the TAU check
\*   "commit"     every check passed: `prove_state` is to be committed
\*   "panic"      the process aborts
\*   "underflow"  a u64 subtraction below zero: an abort in a build that
\*                checks the arithmetic, a wrapped count in one that does not
Out(kind, status, prove_state, is_trusted_state) ==
    [kind |-> kind, status |-> status, prove_state |-> prove_state,
     is_trusted_state |-> is_trusted_state]

\* The response carries the trusted state; the variant trusts any state.
IsTrustedStateAny(trusted_request, last_header) == TRUE

IsTrustedState(trusted_request, last_header) ==
    last_header.hash = trusted_request.trusted_hash

\* The request the response answers: <<original_request, is_trusted_state>>,
\* or the status execute returns at once.
ResolveRequest(peer_state, last_header) ==
    IF IsSome(peer_state.prove_request)
    THEN [status |-> "OK", found |-> TRUE,
          original_request |-> peer_state.prove_request, is_trusted_state |-> FALSE]
    ELSE IF IsSome(peer_state.prove_request_for_trusted_state)
    THEN LET trusted == Unwrap(peer_state.prove_request_for_trusted_state)
         IN  IF check_verifiable_header(last_header) # "OK"
             THEN [status |-> check_verifiable_header(last_header), found |-> FALSE,
                   original_request |-> None, is_trusted_state |-> FALSE]
             ELSE IF IsTrustedState(trusted, last_header)
             THEN [status |-> "OK", found |-> TRUE,
                   original_request |-> Some(complete(trusted, last_header)),
                   is_trusted_state |-> TRUE]
             ELSE [status |-> "NotTrustedState", found |-> FALSE,
                   original_request |-> None, is_trusted_state |-> FALSE]
    ELSE [status |-> "OK", found |-> FALSE,
          original_request |-> None, is_trusted_state |-> FALSE]

\* The TAU check of execute on the first sampled header and the last header.
CheckTau(original_request, headers, m) ==
    IF if_skip_check_tau(original_request) THEN [status |-> "OK", result |-> TRUE]
    ELSE IF m.sampled_count # 0
    THEN LET start_header == headers[m.reorg_count + 1]
             end_header   == headers[m.reorg_count + m.sampled_count + m.last_n_count]
         IN  verify_tau(start_header.epoch, start_header.compact_target,
                        end_header.epoch, end_header.compact_target, TAU)
    ELSE [status |-> "OK", result |-> TRUE]

\* A variant of the continuity checks that looks at no header.
CheckContinuitySkipped(headers, m) == "OK"

\* The continuity checks of execute on the reorg prefix and on the last-n
\* headers.
CheckContinuity(headers, m) ==
    LET reorg == IF m.reorg_count # 0
                 THEN check_continuous_headers(SubSeq(headers, 1, m.reorg_count - 1))
                 ELSE "OK"
    IN  IF reorg # "OK" THEN reorg
        ELSE check_continuous_headers(
                 SubSeq(headers, m.reorg_count + m.sampled_count + 1, Len(headers)))

\* The total difficulty check of execute against the previous prove state.
\* The variant leaves the check out.
NoTotalDifficultyCheck(peer_state, last_header, m) == "Ok"

CheckTotalDifficulty(peer_state, last_header, m) ==
    IF m.sampled_count # 0 /\ IsSome(peer_state.prove_state)
    THEN LET prev_last_header == Unwrap(peer_state.prove_state).last_header
         IN  verify_total_difficulty(
                 prev_last_header.epoch, prev_last_header.compact_target,
                 prev_last_header.total_difficulty,
                 last_header.epoch, last_header.compact_target,
                 last_header.total_difficulty, TAU)
    ELSE "Ok"

\* A variant that takes the new last headers where there is no previous
\* prove state, with or without reorg headers.
BuildLastHeadersNoFault(peer_state, headers, m, last_n_blocks) ==
    LET new_last_headers == SubSeq(headers, Len(headers) - m.last_n_count + 1, Len(headers))
    IN  IF m.last_n_count > last_n_blocks
        THEN Some(SubSeq(new_last_headers, m.last_n_count - last_n_blocks + 1,
                         m.last_n_count))
        ELSE Some(new_last_headers)

\* A variant that puts all the older last headers before the new ones.
BuildLastHeadersWithoutSkip(peer_state, headers, m, last_n_blocks) ==
    LET new_last_headers == SubSeq(headers, Len(headers) - m.last_n_count + 1, Len(headers))
    IN  IF m.last_n_count = last_n_blocks THEN Some(new_last_headers)
        ELSE IF m.last_n_count > last_n_blocks
        THEN Some(SubSeq(new_last_headers, m.last_n_count - last_n_blocks + 1,
                         m.last_n_count))
        ELSE IF IsSome(peer_state.prove_state)
        THEN LET old_last_headers ==
                     IF m.reorg_count = 0
                     THEN Unwrap(peer_state.prove_state).last_headers
                     ELSE SubSeq(headers, 1, m.reorg_count)
             IN  Some(old_last_headers \o new_last_headers)
        ELSE IF m.reorg_count = 0 THEN Some(new_last_headers)
        ELSE None

\* The last headers of the new prove state; None is the branch "no previous
\* prove state but has reorg blocks".
BuildLastHeaders(peer_state, headers, m, last_n_blocks) ==
    LET new_last_headers == SubSeq(headers, Len(headers) - m.last_n_count + 1, Len(headers))
    IN  IF m.last_n_count = last_n_blocks THEN Some(new_last_headers)
        ELSE IF m.last_n_count > last_n_blocks
        THEN Some(SubSeq(new_last_headers, m.last_n_count - last_n_blocks + 1,
                         m.last_n_count))
        ELSE IF IsSome(peer_state.prove_state)
        THEN LET old_last_headers ==
                     IF m.reorg_count = 0
                     THEN Unwrap(peer_state.prove_state).last_headers
                     ELSE SubSeq(headers, 1, m.reorg_count)
                 required_count == last_n_blocks - m.last_n_count
                 skipped == IF Len(old_last_headers) > required_count
                            THEN Len(old_last_headers) - required_count ELSE 0
             IN  IF old_last_headers = <<>> THEN Some(new_last_headers)
                 ELSE Some(SubSeq(old_last_headers, skipped + 1, Len(old_last_headers))
                           \o new_last_headers)
        ELSE IF m.reorg_count = 0 THEN Some(new_last_headers)
        ELSE None

\* "Commit the status if all checks are passed": the process aborts on the
\* response to a request marked long_fork_detected. The variant commits it.
CommitMarked(original_request, prove_state, is_trusted_state) ==
    Out("commit", "OK", Some(prove_state), is_trusted_state)

CommitOrAbort(original_request, prove_state, is_trusted_state) ==
    IF original_request.long_fork_detected
    THEN Out("panic", "Panic", None, is_trusted_state)
    ELSE Out("commit", "OK", Some(prove_state), is_trusted_state)

\* The checks of execute once the response is known to answer the request.
VerifyResponse(peer_state, original_request, is_trusted_state, msg) ==
    LET headers == msg.headers
        last_header == msg.last_header
        m == check_if_response_is_matched(LastNBlocks, original_request.content,
                                          headers, last_header)
        tau == CheckTau(original_request, headers, m)
        failed_to_verify_tau == ~tau.result
        total == CheckTotalDifficulty(peer_state, last_header, m)
        last_headers == BuildLastHeaders(peer_state, headers, m, LastNBlocks)
        Return(status) == Out("return", status, None, is_trusted_state)
    IN  IF ~m.ok
        THEN IF m.status = "Panic" THEN Out("panic", "Panic", None, is_trusted_state)
             ELSE Return(m.status)
        ELSE IF check_chain_root_for_headers(headers) # "OK"
        THEN Return(check_chain_root_for_headers(headers))
        ELSE IF check_pow_for_headers(headers) # "OK"
        THEN Return(check_pow_for_headers(headers))
        ELSE IF tau.status = "Panic" THEN Out("panic", "Panic", None, is_trusted_state)
        ELSE IF tau.status # "OK" THEN Return(tau.status)
        ELSE IF CheckContinuity(headers, m) # "OK"
        THEN Return(CheckContinuity(headers, m))
        ELSE IF verify_mmr_proof(MmrActivatedEpoch, last_header, msg.proof, headers) # "OK"
        THEN Return("InvalidProof")
        ELSE IF total = "Err" THEN Return("InvalidTotalDifficulty")
        ELSE IF total = "Panic" THEN Out("panic", "Panic", None, is_trusted_state)
        ELSE IF total = "Underflow"
        THEN Out("underflow", "InvalidTotalDifficulty", None, is_trusted_state)
        ELSE IF failed_to_verify_tau THEN Out("tau", "OK", None, is_trusted_state)
        ELSE IF ~IsSome(last_headers) THEN Return("InvalidReorgHeaders")
        ELSE CommitOrAbort(original_request,
                           new_from_request(original_request,
                                            SubSeq(headers, 1, m.reorg_count),
                                            Unwrap(last_headers)),
                           is_trusted_state)

\* "Update the last state if the response contains a new one": only a
\* response without a proof does. The variant takes any response for one.
DifferentLastStateAny(msg) == Out("last_state", "OK", None, FALSE)

DifferentLastState(msg) ==
    IF msg.proof = "empty"
    THEN Out("last_state", "OK", None, FALSE)
    ELSE Out("return", "OK", None, FALSE)

\* execute up to the point where it touches the peer's state.
ExecuteOutcome(peer_state, msg) ==
    LET resolved == ResolveRequest(peer_state, msg.last_header)
    IN  IF ~resolved.found THEN Out("return", resolved.status, None, FALSE)
        ELSE LET original_request == Unwrap(resolved.original_request)
             IN  IF ~resolved.is_trusted_state
                    /\ ~is_same_as(original_request, msg.last_header)
                 THEN DifferentLastState(msg)
                 ELSE VerifyResponse(peer_state, original_request,
                                     resolved.is_trusted_state, msg)

\* One way execute can end: the peer's state, the status returned, the
\* request sent to the peer, and whether the process aborted.
Step(peer_state, status, reply, aborted, committed) ==
    [peer_state |-> peer_state, status |-> status, reply |-> reply,
     aborted |-> aborted, committed |-> committed]

\* A return before the peer's state is touched; the variant drops the
\* request of a response that failed.
ReturnDroppingRequest(peer_state, status) ==
    Step(IF status = "OK" THEN peer_state
         ELSE [peer_state EXCEPT !.prove_request = None],
         status, None, FALSE, FALSE)

Return(peer_state, status) == Step(peer_state, status, None, FALSE, FALSE)

\* process_last_state and get_last_state_proof on a new last state: the state
\* is checked, then a request for the new tip is sent, or it is skipped.
NewLastStateSteps(peer_state, last_header) ==
    IF check_verifiable_header(last_header) # "OK"
    THEN {Return(peer_state, check_verifiable_header(last_header))}
    ELSE {Return(peer_state, "OK")} \cup
         {Step(submit_prove_request(peer_state,
                                    ProveRequestNew(last_header, Unwrap(c))),
               "OK", c, FALSE, FALSE) :
             c \in build_prove_request_content(peer_state, last_header) \ {None}}

\* "Ask for new sampled headers if all checks are passed, expect the TAU
\* check", with the content built.
TauRecheck(peer_state, last_header, content) ==
    Step(submit_prove_request(peer_state,
                              skip_check_tau(ProveRequestNew(last_header, content))),
         "RequireRecheck", Some(content), FALSE, FALSE)

\* The branch `if failed_to_verify_tau`.
TauRecheckSteps(peer_state, last_header) ==
    {IF IsSome(c) THEN TauRecheck(peer_state, last_header, Unwrap(c))
     ELSE Return(peer_state, "OK") :
        c \in build_prove_request_content(peer_state, last_header)}

\* The branch `if long_fork_detected`, with the content built. The variant
\* asks again without marking the request.
LongForkRecheckUnmarked(peer_state, last_header, content) ==
    Step(submit_prove_request(peer_state, ProveRequestNew(last_header, content)),
         "RequireRecheck", Some(content), FALSE, FALSE)

LongForkRecheck(peer_state, last_header, content) ==
    Step(submit_prove_request(peer_state,
                              long_fork_detected(ProveRequestNew(last_header, content))),
         "RequireRecheck", Some(content), FALSE, FALSE)

\* The commit, and the branch `if long_fork_detected`.
CommitSteps(peer_state, out) ==
    LET prove_state == Unwrap(out.prove_state)
    IN  IF ~LongForkDetected(peer_state, prove_state)
        THEN {Step(commit_prove_state(peer_state, prove_state), "OK", None, FALSE, TRUE)}
        ELSE IF out.is_trusted_state
        THEN {Step(peer_state, "Panic", None, TRUE, FALSE)}
        ELSE {IF IsSome(c)
              THEN LongForkRecheck(peer_state, prove_state.last_header, Unwrap(c))
              ELSE Return(peer_state, "OK") :
                 c \in build_prove_request_content_from_genesis(prove_state.last_header)}

\* All the ways execute can end for a response.
ExecuteSteps(peer_state, msg) ==
    LET out == ExecuteOutcome(peer_state, msg)
    IN  CASE out.kind = "return" -> {Return(peer_state, out.status)}
          [] out.kind = "panic" -> {Step(peer_state, "Panic", None, TRUE, FALSE)}
          [] out.kind = "underflow" ->
                {Step(peer_state, "Panic", None, TRUE, FALSE),
                 Return(peer_state, out.status)}
          [] out.kind = "last_state" -> NewLastStateSteps(peer_state, msg.last_header)
          [] out.kind = "tau" -> TauRecheckSteps(peer_state, msg.last_header)
          [] out.kind = "commit" -> CommitSteps(peer_state, out)

\* The responses a peer may send, given what the client waits for.
MessagesFor(slot) ==
    LET unread(tips) == {Message(t, pf, l) :
                            t \in tips, pf \in {"empty", "honest"}, l \in UnreadLists}
        read(tips)   == {Message(t, pf, l) :
                            t \in tips, pf \in {"honest", "forged"}, l \in HeaderLists}
                        \cup {Message(t, pf, l) :
                                 t \in tips, pf \in ProofKinds, l \in ProbeLists}
        others(tips) == unread((Tips \cup BadTips) \ tips)
    IN  IF ~IsSome(slot) THEN others({})
        ELSE LET peer_state == Unwrap(slot)
             IN  IF IsSome(peer_state.prove_request)
                 THEN LET tip == Unwrap(peer_state.prove_request).last_header
                      IN  read({tip}) \cup others({tip})
                 ELSE IF IsSome(peer_state.prove_request_for_trusted_state)
                 THEN LET hash == Unwrap(peer_state.prove_request_for_trusted_state)
                                      .trusted_hash
                          same == {t \in Tips : t.hash = hash}
                      IN  read(same) \cup others(same)
                 ELSE others({})

\* ------------------------------------------------------------- the machine

VARIABLES
    peers,   \* Peers: the slot of each peer, None without the peer
    last,    \* the last execute: its peer, response, status and reply
    fatal,   \* the process aborted
    applied  \* a function applied on its own: its arguments and its result

vars == <<peers, last, fatal, applied>>

Init ==
    /\ peers = [p \in PeerIds |-> None]
    /\ last = None
    /\ fatal = FALSE
    /\ applied = None

\* A peer connects.
AddPeer(p) ==
    /\ ~fatal
    /\ ~IsSome(last)
    /\ ~IsSome(peers[p])
    /\ peers' = add_peer(peers, p)
    /\ UNCHANGED <<last, fatal, applied>>

\* A peer disconnects.
RemovePeer(p) ==
    /\ ~fatal
    /\ ~IsSome(last)
    /\ IsSome(peers[p])
    /\ peers' = remove_peer(peers, p)
    /\ UNCHANGED <<last, fatal, applied>>

\* get_last_state_proof: the client asks the peer to prove the tip it
\* advertised.
GetLastStateProof(p) ==
    /\ ~fatal
    /\ ~IsSome(last)
    /\ IsSome(peers[p])
    /\ LET peer_state == Unwrap(peers[p])
       IN  /\ ~IsSome(peer_state.prove_request_for_trusted_state)
           /\ \E tip \in Tips :
                 /\ IsSome(peer_state.prove_state)
                        => Unwrap(peer_state.prove_state).last_header # tip
                 /\ \E c \in build_prove_request_content(peer_state, tip) \ {None} :
                       peers' = update_prove_request(peers, p,
                                    ProveRequestNew(tip, Unwrap(c)))
    /\ UNCHANGED <<last, fatal, applied>>

\* The client asks a fresh peer to prove the trusted state.
RequestTrustedState(p) ==
    /\ ~fatal
    /\ ~IsSome(last)
    /\ IsSome(peers[p])
    /\ Unwrap(peers[p]) = DefaultPeerState
    /\ \E tip \in Tips, c \in SampleChoices :
          peers' = [peers EXCEPT ![p] = Some(
                       [DefaultPeerState EXCEPT !.prove_request_for_trusted_state =
                            Some(TrustedRequest(tip.hash, Content(0, c)))])]
    /\ UNCHANGED <<last, fatal, applied>>

\* The responses delivered next: any response the peer may send, or, right
\* after a commit, the committed response once more.
Deliveries(p) ==
    IF IsSome(last)
    THEN IF Unwrap(last).peer = p /\ Unwrap(last).committed
         THEN {Unwrap(last).msg} ELSE {}
    ELSE MessagesFor(peers[p])

\* SendLastStateProofProcess::execute on one response of peer p.
Execute(p) ==
    /\ ~fatal
    /\ \E msg \in Deliveries(p) :
          IF ~IsSome(get_state(peers, p))
          THEN /\ last' = Some([peer |-> p, msg |-> msg, status |-> "PeerStateIsNotFound",
                                pre |-> peers[p], reply |-> None, committed |-> FALSE,
                                replayed |-> FALSE])
               /\ UNCHANGED <<peers, fatal, applied>>
          ELSE \E step \in ExecuteSteps(Unwrap(get_state(peers, p)), msg) :
               /\ peers' = [peers EXCEPT ![p] = Some(step.peer_state)]
               /\ fatal' = step.aborted
               /\ last' = Some([peer |-> p, msg |-> msg, status |-> step.status,
                                pre |-> peers[p], reply |-> step.reply,
                                committed |-> step.committed,
                                replayed |-> IsSome(last) /\ Unwrap(last).committed])
               /\ UNCHANGED applied

\* The status has been handed to the caller: the record of the call is
\* dropped.
Returned ==
    /\ ~fatal
    /\ IsSome(last)
    /\ last' = None
    /\ UNCHANGED <<peers, fatal, applied>>

Next ==
    \E p \in PeerIds :
        \/ AddPeer(p)
        \/ RemovePeer(p)
        \/ GetLastStateProof(p)
        \/ RequestTrustedState(p)
        \/ Execute(p)
        \/ Returned

Spec == Init /\ [][Next]_vars

\* ------------------------------------------------- the last call, observed

\* The peer's state before and after the last call, its request and response.
Call == Unwrap(last)

Pre == Unwrap(Call.pre)

Post == Unwrap(peers[Call.peer])

Resolved == ResolveRequest(Pre, Call.msg.last_header)

Request == Unwrap(Resolved.original_request)

Response == Call.msg

\* The last call ran on a peer that waits for a proof the response may be.
OnRequest == IsSome(last) /\ IsSome(Call.pre) /\ Resolved.found

\* The last call ran on a response for the tip of the peer's request.
Answered == OnRequest /\ Response.last_header = Request.last_header

\* The checks of execute on the response of the last call, one by one.
Matching ==
    check_if_response_is_matched(LastNBlocks, Request.content,
                                 Response.headers, Response.last_header)

TauOfResponse ==
    CheckTau([Request EXCEPT !.skip_check_tau = FALSE], Response.headers, Matching)

PassesMatcher == Matching.ok

PassesPoW ==
    /\ check_chain_root_for_headers(Response.headers) = "OK"
    /\ check_pow_for_headers(Response.headers) = "OK"

PassesTau == TauOfResponse.status = "OK" /\ TauOfResponse.result

FailsTau == TauOfResponse.status = "OK" /\ ~TauOfResponse.result

PassesContinuity == CheckContinuity(Response.headers, Matching) = "OK"

PassesProof ==
    verify_mmr_proof(MmrActivatedEpoch, Response.last_header, Response.proof,
                     Response.headers) = "OK"

PassesTotalDifficulty ==
    CheckTotalDifficulty(Pre, Response.last_header, Matching) = "Ok"

\* Every check but the TAU check passes.
PassesOtherChecks ==
    /\ PassesMatcher
    /\ PassesPoW
    /\ TauOfResponse.status = "OK"
    /\ PassesContinuity
    /\ PassesProof
    /\ PassesTotalDifficulty

\* The prove state execute builds from the response of the last call.
Candidate ==
    new_from_request(Request, SubSeq(Response.headers, 1, Matching.reorg_count),
        Unwrap(BuildLastHeaders(Pre, Response.headers, Matching, LastNBlocks)))

\* The response answers the request and passes every check that execute
\* evaluates for it.
Verified ==
    Answered /\ PassesOtherChecks /\ (Request.skip_check_tau \/ PassesTau)

\* The last call changed nothing of the peer.
Untouched == peers[Call.peer] = Call.pre

\* The request the peer holds after the last call.
NewRequest == Unwrap(Post.prove_request)

\* ------------------------------------------------------------------ claims

\* C1: when a response answers the peer's outstanding request (same
\* last_header), passes every check (matcher, PoW, TAU, continuity, MMR proof,
\* total difficulty) and the commit detects no long fork, the peer's prove
\* state becomes the state whose last_header is the request's and the
\* outstanding request is cleared.
C1_CommitOnVerifiedResponse ==
    (Answered /\ PassesOtherChecks /\ PassesTau /\ ~LongForkDetected(Pre, Candidate))
        => /\ Call.status = "OK"
           /\ Call.committed
           /\ IsSome(Post.prove_state)
           /\ Unwrap(Post.prove_state).last_header = Request.last_header
           /\ Post.prove_request = None

\* A response with sampled headers is committed over a previous prove state.
C1_Witness ==
    /\ Answered /\ PassesOtherChecks /\ PassesTau
    /\ ~LongForkDetected(Pre, Candidate)
    /\ IsSome(Pre.prove_state)
    /\ Matching.sampled_count > 0
    /\ Call.committed
    /\ Post.prove_request = None

\* The TAU check is evaluated for the response of the last call and fails,
\* while every other check passes.
OnlyTauFails ==
    Answered /\ ~Request.skip_check_tau /\ PassesOtherChecks /\ FailsTau

\* The last call asked the peer again, for the same tip, with the TAU check
\* switched off, and committed nothing.
TauRechecked ==
    /\ Call.status = "RequireRecheck"
    /\ IsSome(Call.reply)
    /\ IsSome(Post.prove_request)
    /\ NewRequest.last_header = Response.last_header
    /\ NewRequest.content = Unwrap(Call.reply)
    /\ NewRequest.skip_check_tau = TRUE
    /\ Post.prove_state = Pre.prove_state
    /\ ~Call.committed

\* C2, as stated: when only the TAU check fails, execute replaces the request
\* by one for the same last_header with skip_check_tau set, sends it, returns
\* RequireRecheck and leaves the prove state alone.
C2_AsStated == OnlyTauFails => TauRechecked

\* C2, amended: when only the TAU check fails, execute does so if a new
\* sampling request can be built; if none can be built it returns OK and
\* leaves the request and the prove state as they were.
C2_TauRecheckOrNothing ==
    OnlyTauFails =>
        \/ TauRechecked
        \/ Call.status = "OK" /\ Call.reply = None /\ Untouched

C2_Witness == OnlyTauFails /\ TauRechecked /\ ~Pre.prove_request = Post.prove_request

LongForkOnCommit ==
    /\ Verified
    /\ ~Request.long_fork_detected
    /\ ~Resolved.is_trusted_state
    /\ LongForkDetected(Pre, Candidate)

\* The last call asked the peer again from genesis, for the same tip, with
\* the request marked long_fork_detected.
LongForkRechecked ==
    /\ Call.status = "RequireRecheck"
    /\ IsSome(Call.reply)
    /\ IsSome(Post.prove_request)
    /\ NewRequest.last_header = Response.last_header
    /\ NewRequest.content = Unwrap(Call.reply)
    /\ NewRequest.content.start_number = 0
    /\ NewRequest.long_fork_detected = TRUE

\* C4, as stated: when the commit detects a long fork for a request that is
\* no trusted-state request, execute replaces the request by one from genesis
\* for the same last_header with long_fork_detected set, sends it and returns
\* RequireRecheck.
C4_AsStated == LongForkOnCommit => LongForkRechecked

\* C4, amended: execute does so if the request from genesis can be built; if
\* it cannot, execute returns OK and changes nothing of the peer.
C4_LongForkRecheckOrNothing ==
    LongForkOnCommit =>
        \/ LongForkRechecked /\ Post.prove_state = Pre.prove_state /\ ~Call.committed
        \/ Call.status = "OK" /\ Call.reply = None /\ Untouched

C4_Witness == LongForkOnCommit /\ LongForkRechecked /\ IsSome(Pre.prove_state)

\* C5: when a response passes all checks and the outstanding request carries
\* long_fork_detected, processing ends in fatal termination before the
\* commit: no new prove state is committed for the peer.
C5_FatalOnMarkedRequest ==
    (Answered /\ PassesOtherChecks /\ PassesTau /\ Request.long_fork_detected)
        => /\ fatal
           /\ Call.status = "Panic"
           /\ ~Call.committed
           /\ Untouched

C5_Witness ==
    /\ Answered /\ PassesOtherChecks /\ PassesTau /\ Request.long_fork_detected
    /\ fatal
    /\ Post.prove_state = Pre.prove_state

\* The last call ran on a peer that holds a prove request, on a response for
\* another tip that carries a proof.
LateResponse ==
    /\ IsSome(last) /\ IsSome(Call.pre) /\ IsSome(Pre.prove_request)
    /\ Response.last_header # Unwrap(Pre.prove_request).last_header
    /\ Response.proof # "empty"

\* C6: a response whose last_header differs from that of the outstanding
\* (non-trusted) request and whose proof is not empty changes neither the
\* request nor the prove state of the peer and commits nothing.
C6_LateResponseChangesNothing ==
    LateResponse => Call.status = "OK" /\ Untouched /\ ~Call.committed

\* A late response reaches a peer that already holds a prove state.
C6_Witness ==
    LateResponse /\ IsSome(Pre.prove_state) /\ Response.headers # <<>> /\ Untouched

\* The last call ran on a peer that waits for no proof at all.
NotWaiting ==
    /\ IsSome(last) /\ IsSome(Call.pre)
    /\ Pre.prove_request = None
    /\ Pre.prove_request_for_trusted_state = None

\* C7: a response for a peer without an outstanding request, normal or
\* trusted-state, is dropped with OK and changes nothing; so is the committed
\* response when it is processed once more right after its commit.
C7_DroppedWithoutRequest ==
    /\ NotWaiting => Call.status = "OK" /\ Untouched /\ ~Call.committed
    /\ (IsSome(last) /\ Call.replayed)
          => Call.status = "OK" /\ Untouched /\ ~Call.committed

\* The committed response is processed once more.
C7_Witness ==
    /\ IsSome(last) /\ Call.replayed
    /\ NotWaiting
    /\ IsSome(Post.prove_state)
    /\ Unwrap(Post.prove_state).last_header = Response.last_header

\* The last call ran on a peer that waits for the proof of a trusted state,
\* on a response for a header with another hash.
NotTheTrustedState ==
    /\ IsSome(last) /\ IsSome(Call.pre)
    /\ Pre.prove_request = None
    /\ IsSome(Pre.prove_request_for_trusted_state)
    /\ Response.last_header.hash
          # Unwrap(Pre.prove_request_for_trusted_state).trusted_hash

\* C8, as stated: a response whose last_header has not the trusted hash is
\* answered with NotTrustedState and the peer keeps waiting for the same
\* trusted state.
C8_AsStated == NotTheTrustedState => Call.status = "NotTrustedState" /\ Untouched

\* C8, amended: the header of the response is checked first. If it passes
\* check_verifiable_header the status is NotTrustedState, otherwise it is the
\* status of that check; in both cases the peer keeps waiting for the same
\* trusted state.
C8_NotTrustedState ==
    NotTheTrustedState =>
        /\ Untouched
        /\ ~Call.committed
        /\ Call.status =
              IF check_verifiable_header(Response.last_header) = "OK"
              THEN "NotTrustedState"
              ELSE check_verifiable_header(Response.last_header)

C8_Witness ==
    NotTheTrustedState /\ Call.status = "NotTrustedState" /\ Untouched

\* The response of the last call answers the request of a peer with a prove
\* state, passes the checks execute makes before the total difficulty check,
\* and its tip has less total difficulty than the prove state.
Regression ==
    /\ Answered
    /\ IsSome(Pre.prove_state)
    /\ Response.last_header.total_difficulty
          < Unwrap(Pre.prove_state).last_header.total_difficulty
    /\ PassesMatcher
    /\ PassesPoW
    /\ (Request.skip_check_tau \/ TauOfResponse.status = "OK")
    /\ PassesContinuity
    /\ PassesProof

\* Each committed prove state has at least the total difficulty of the one
\* before.
CommitsAreMonotonic ==
    (IsSome(last) /\ IsSome(Call.pre) /\ Call.committed /\ IsSome(Pre.prove_state))
        => Unwrap(Post.prove_state).last_header.total_difficulty
              >= Unwrap(Pre.prove_state).last_header.total_difficulty

\* C9, as stated: commits are monotonic in total difficulty, and a response
\* whose tip has less total difficulty than the committed state is rejected
\* with InvalidTotalDifficulty, with or without sampled headers.
C9_AsStated ==
    /\ CommitsAreMonotonic
    /\ Regression => Call.status = "InvalidTotalDifficulty"

\* C9, amended: commits are monotonic in total difficulty. A response with
\* sampled headers whose tip has less total difficulty than the committed
\* state is rejected with InvalidTotalDifficulty. A response without sampled
\* headers is not checked for total difficulty: the commit takes its lower
\* tip for a long fork, so it is never committed either.
C9_MonotonicTotalDifficulty ==
    /\ CommitsAreMonotonic
    /\ (Regression /\ Matching.sampled_count # 0)
          => Call.status = "InvalidTotalDifficulty" /\ Untouched
    /\ (Regression /\ Matching.sampled_count = 0)
          => /\ Call.status \in {"RequireRecheck", "OK", "Panic"}
             /\ ~Call.committed
             /\ Post.prove_state = Pre.prove_state

\* A lower tip with sampled headers is rejected.
C9_Witness ==
    /\ Regression /\ Matching.sampled_count # 0
    /\ Call.status = "InvalidTotalDifficulty"

\* The statuses with which a verification step rejects a response.
RejectingStatuses ==
    {"MalformedProtocolMessage", "InvalidReorgHeaders", "InvalidSamples",
     "InvalidParentBlock", "InvalidProof", "InvalidCompactTarget",
     "InvalidTotalDifficulty"}

\* C10: when execute returns a rejecting status of a verification step, the
\* request and the prove state of the peer are what they were before the
\* response: nothing is committed in part.
C10_RejectionChangesNothing ==
    (IsSome(last) /\ Call.status \in RejectingStatuses)
        => Untouched /\ ~Call.committed /\ Call.reply = None /\ ~fatal

\* The last check rejects a response for a peer that holds a prove state.
C10_Witness ==
    /\ IsSome(last) /\ Call.status = "InvalidTotalDifficulty"
    /\ IsSome(Pre.prove_state) /\ IsSome(Pre.prove_request)
    /\ Untouched

\* ------------------------------------------------------ Peers on its own

\* The writes of a verification land on Peers whenever the verification
\* ends, whether or not the peer is still connected.  `applied` records the
\* last call on Peers: the function, the peer, Peers before and after, and
\* the function called before it.
PeersRequests == {ProveRequestNew(t, Content(0, c)) : t \in Tips, c \in SampleChoices}

PeersStates == {new_from_request(r, <<>>, <<>>) : r \in PeersRequests}

PeersCall(f, index, post) ==
    Some([f |-> f, peer |-> index, pre |-> peers, post |-> post,
          after |-> IF IsSome(applied) THEN Unwrap(applied).f ELSE ""])

PeersApply(f, index, post) ==
    /\ peers' = post
    /\ applied' = PeersCall(f, index, post)
    /\ UNCHANGED <<last, fatal>>

PeersAddPeer(p) == ~IsSome(peers[p]) /\ PeersApply("add_peer", p, add_peer(peers, p))

PeersRemovePeer(p) == PeersApply("remove_peer", p, remove_peer(peers, p))

PeersSubmitProveRequest(p) ==
    \E request \in PeersRequests :
        PeersApply("submit_prove_request", p, update_prove_request(peers, p, request))

PeersCommit(p) ==
    \E state \in PeersStates :
        PeersApply("commit_prove_state", p, PeersCommitProveState(peers, p, state))

PeersNext ==
    \E p \in PeerIds :
        \/ PeersAddPeer(p)
        \/ PeersRemovePeer(p)
        \/ PeersSubmitProveRequest(p)
        \/ PeersCommit(p)

PeersSpec == Init /\ [][PeersNext]_vars

\* The last call on Peers is a write for a peer that has no slot.
WriteWithoutSlot ==
    /\ IsSome(applied)
    /\ Unwrap(applied).f \in {"submit_prove_request", "commit_prove_state"}
    /\ ~IsSome(Unwrap(applied).pre[Unwrap(applied).peer])

\* C11: a submit_prove_request or commit_prove_state for a peer without a
\* slot, as after remove_peer, changes nothing: the peer has no slot
\* afterwards and is not among the proved peers.
C11_WriteAfterRemovalIsNoOp ==
    WriteWithoutSlot =>
        /\ Unwrap(applied).post = Unwrap(applied).pre
        /\ ~IsSome(peers[Unwrap(applied).peer])
        /\ Unwrap(applied).peer \notin get_peers_which_are_proved(peers)

\* The commit of a verification lands right after the peer was removed.
C11_Witness ==
    /\ WriteWithoutSlot
    /\ Unwrap(applied).f = "commit_prove_state"
    /\ Unwrap(applied).after = "remove_peer"

\* --------------------------------- check_if_response_is_matched on its own

\* The longest header list given to the matcher on its own.
MaxResponse == 4

\* The headers of chain A.
ChainBlocks == {A(n) : n \in 0..6}

\* The strictly increasing lists of at most n headers of chain A: a peer
\* may leave out any block.
RECURSIVE ChainLists(_)
ChainLists(n) ==
    IF n = 0 THEN {<<>>}
    ELSE LET shorter == ChainLists(n - 1)
         IN  shorter \cup
             {Append(l, h) : <<l, h>> \in
                 {x \in shorter \X ChainBlocks :
                     x[1] = <<>> \/ x[1][Len(x[1])].number < x[2].number}}

\* Lists out of order, at the first pair of headers or at the second.
DisorderedLists ==
    {<<g, h>> : <<g, h>> \in {x \in ChainBlocks \X ChainBlocks : x[1].number >= x[2].number}}
        \cup {<<A(0), A(2), h>> : h \in {A(1), A(2)}}

\* The requested difficulties: two of them fall into block 1, one into
\* block 2 and one into block 4.
SampledDifficulties == {TdA(0) + 4, TdA(0) + 6, TdA(1) + 4, TdA(3) + 10}

\* The elements of a set of numbers in ascending order.
RECURSIVE Ascending(_)
Ascending(set) ==
    IF set = {} THEN <<>>
    ELSE LET least == CHOOSE x \in set : \A y \in set : x <= y
         IN  <<least>> \o Ascending(set \ {least})

MatcherRequests ==
    {Content(start_number, [difficulty_boundary |-> boundary,
                            difficulties |-> Ascending(ds)]) :
        start_number \in 0..6,
        boundary \in {TdA(0), TdA(2), TdA(4)},
        ds \in SUBSET SampledDifficulties}

MatcherInputs ==
    [last_n_blocks : 1..LastNBlocks,
     prev_request : MatcherRequests,
     headers : ChainLists(MaxResponse) \cup DisorderedLists,
     last_header : {A(5), A(6)}]

MatcherInit ==
    /\ peers = [p \in PeerIds |-> None]
    /\ last = None
    /\ fatal = FALSE
    /\ applied \in {Some([f |-> "check_if_response_is_matched", args |-> x,
                          result |-> None]) : x \in MatcherInputs}

\* The matcher is applied to its arguments.
ApplyMatcher ==
    /\ IsSome(applied)
    /\ Unwrap(applied).f = "check_if_response_is_matched"
    /\ ~IsSome(Unwrap(applied).result)
    /\ LET x == Unwrap(applied).args
       IN  applied' = Some([Unwrap(applied) EXCEPT !.result =
               Some(check_if_response_is_matched(x.last_n_blocks, x.prev_request,
                                                 x.headers, x.last_header))])
    /\ UNCHANGED <<peers, last, fatal>>

MatcherSpec == MatcherInit /\ [][ApplyMatcher]_vars

\* The matcher has been applied: its arguments and its result.
Matcher ==
    /\ IsSome(applied)
    /\ Unwrap(applied).f = "check_if_response_is_matched"
    /\ IsSome(Unwrap(applied).result)

MArgs == Unwrap(applied).args

MResult == Unwrap(Unwrap(applied).result)

MHeaders == MArgs.headers

\* The headers are not empty and strictly increasing in number.
MSorted ==
    /\ MHeaders # <<>>
    /\ \A i \in 1..(Len(MHeaders) - 1) : MHeaders[i].number < MHeaders[i + 1].number

\* C12: whenever the matcher returns Ok, its three counts are not negative
\* and add up to the number of headers.
C12_CountsAddUp ==
    (Matcher /\ MResult.ok) =>
        /\ MResult.reorg_count >= 0
        /\ MResult.sampled_count >= 0
        /\ MResult.last_n_count >= 0
        /\ MResult.reorg_count + MResult.sampled_count + MResult.last_n_count
              = Len(MHeaders)

\* A response with reorg, sampled and last-n headers is matched.
C12_Witness ==
    /\ Matcher /\ MResult.ok
    /\ MResult.reorg_count > 0
    /\ MResult.sampled_count > 0
    /\ MResult.last_n_count > 0

\* C13: the matcher returns MalformedProtocolMessage for an empty list and
\* for a list where two adjacent headers do not increase in number.
C13_EmptyOrUnsorted ==
    (Matcher /\ ~MSorted) => MResult.status = "MalformedProtocolMessage"

\* The second pair of headers is out of order.
C13_Witness ==
    /\ Matcher /\ ~MSorted
    /\ Len(MHeaders) = 3
    /\ MHeaders[1].number < MHeaders[2].number
    /\ MResult.status = "MalformedProtocolMessage"

\* The number of leading headers below start_number, the request's
\* start_number, and the last-n slice of the matched headers.
MStart == MArgs.prev_request.start_number

MReorg == Cardinality({i \in 1..Len(MHeaders) : MHeaders[i].number < MStart})

MLastN ==
    SubSeq(MHeaders, MResult.reorg_count + MResult.sampled_count + 1, Len(MHeaders))

\* The reorg headers are as many as last_n_blocks or start at block 1, and
\* end at block start_number - 1.
ReorgHeadersFit ==
    /\ MReorg = MArgs.last_n_blocks \/ MHeaders[1].number = 1
    /\ MHeaders[MReorg].number = MStart - 1

\* C14: with reorg headers, the matcher succeeds only if they are as many as
\* last_n_blocks or start at block 1, and end at block start_number - 1;
\* otherwise it returns InvalidReorgHeaders.
C14_ReorgHeaders ==
    (Matcher /\ MSorted /\ MReorg # 0) =>
        /\ MResult.ok => ReorgHeadersFit
        /\ ~ReorgHeadersFit => MResult.status = "InvalidReorgHeaders"

\* Fewer reorg headers than last_n_blocks are matched when they start at
\* block 1.
C14_Witness ==
    /\ Matcher /\ MSorted /\ MResult.ok
    /\ MReorg # 0
    /\ MReorg # MArgs.last_n_blocks
    /\ MHeaders[1].number = 1

\* The matcher got as far as the check of the last-n headers of a response
\* without sampled headers.
NoSampledHeaders ==
    /\ Matcher /\ MSorted
    /\ MReorg # 0 => ReorgHeadersFit
    /\ LET counts == SplitCounts(MArgs.last_n_blocks,
                                 MArgs.prev_request.difficulty_boundary, MHeaders, MReorg)
       IN  counts[1] = 0 /\ counts[2] > 0

\* The last-n headers are all the blocks from start_number up to the one
\* before the last header.
ExactRange(slice) ==
    /\ Len(slice) = MArgs.last_header.number - MStart
    /\ \A i \in 1..Len(slice) : slice[i].number = MStart + i - 1

\* The last-n headers start at start_number and end right before the last
\* header.
EndsOfRange(slice) ==
    /\ slice[1].number = MStart
    /\ slice[Len(slice)].number + 1 = MArgs.last_header.number

SampledHeaders ==
    /\ Matcher /\ MSorted
    /\ MReorg # 0 => ReorgHeadersFit
    /\ SplitCounts(MArgs.last_n_blocks, MArgs.prev_request.difficulty_boundary,
                   MHeaders, MReorg)[1] > 0

MSampledCount ==
    SplitCounts(MArgs.last_n_blocks, MArgs.prev_request.difficulty_boundary,
                MHeaders, MReorg)[1]

\* The i-th sampled header, and the first of the last-n headers.
MSampled(i) == MHeaders[MReorg + i]

MFirstLastN == MHeaders[MReorg + MSampledCount + 1]

\* The requested difficulties below the total difficulty of the first
\* last-n header.
MRequested ==
    LET ds == MArgs.prev_request.difficulties
    IN  {ds[i] : i \in {j \in 1..Len(ds) : ds[j] < MFirstLastN.total_difficulty}}

\* The requested difficulties not consumed by the first i sampled headers.
Unconsumed(i) ==
    IF i = 0 THEN MRequested
    ELSE {d \in MRequested : d > MSampled(i).total_difficulty}

Least(set) == CHOOSE x \in set : \A y \in set : x <= y

\* The i-th sampled header is the block that covers the next unconsumed
\* difficulty.
Covers(i) ==
    /\ Unconsumed(i - 1) # {}
    /\ MSampled(i).parent_td < Least(Unconsumed(i - 1))
    /\ Least(Unconsumed(i - 1)) <= MSampled(i).total_difficulty

\* C16: with sampled headers the matcher accepts only if every sampled
\* header is the block covering the next unconsumed requested difficulty; a
\* sampled header that covers none, or that lies beyond a difficulty whose
\* block was left out, yields InvalidSamples.
C16_SampledHeadersCoverDifficulties ==
    SampledHeaders =>
        /\ MResult.ok => \A i \in 1..MSampledCount : Covers(i)
        /\ (\E i \in 1..MSampledCount : ~Covers(i)) => MResult.status = "InvalidSamples"

\* Two sampled headers are accepted, the first covering two requested
\* difficulties.
C16_Witness ==
    /\ SampledHeaders /\ MResult.ok
    /\ MSampledCount = 2
    /\ Cardinality(Unconsumed(0) \ Unconsumed(1)) = 2

\* Every sampled header covers its difficulty and some requested difficulty
\* is left.
UnmatchedDifficulty ==
    /\ SampledHeaders
    /\ \A i \in 1..MSampledCount : Covers(i)
    /\ Unconsumed(MSampledCount) # {}

\* C17: when requested difficulties are left after the sampled headers, the
\* matcher accepts only if the least of them is greater than the total
\* difficulty of the parent chain root of the first last-n header; otherwise
\* it returns InvalidSamples.
C17_UnmatchedDifficulty ==
    UnmatchedDifficulty =>
        IF Least(Unconsumed(MSampledCount)) > MFirstLastN.parent_td
        THEN MResult.ok
        ELSE MResult.status = "InvalidSamples"

\* A difficulty that falls into the first last-n header is left and the
\* response is matched.
C17_Witness ==
    /\ UnmatchedDifficulty
    /\ MResult.ok
    /\ Least(Unconsumed(MSampledCount)) > MFirstLastN.parent_td

\* ------------------------------------------------------------ scenario S2

\* The request of the scenario: start_number 1000, difficulties 100, 200 and
\* 300, boundary 500; its last_n_blocks is the client's LastNBlocks.
S2Request == Content(1000, [difficulty_boundary |-> 500, difficulties |-> <<100, 200, 300>>])

\* A header of the scenario: its number, its total difficulty and the total
\* difficulty of its parent chain root.
S2Header(number, total_difficulty, parent_td) ==
    Header(<<"S", number>>, <<"S", number - 1>>, number, CompactA[1],
           total_difficulty, parent_td, {})

\* The responses of the scenario: blocks 500 (td 120), 700 (td 220), 900
\* (td 350), 999 (td 480), 1000 and 1001.  What the scenario leaves open is
\* drawn from two values each: the total difficulty of each parent chain
\* root, the total difficulty of block 1000, and the number of the last
\* header.
S2Responses ==
    {Message(S2Header(tip, td + 30, td + 20), "honest",
             <<S2Header(500, 120, 120 - a), S2Header(700, 220, 220 - b),
               S2Header(900, 350, 350 - c), S2Header(999, 480, 480 - d),
               S2Header(1000, td, 480), S2Header(1001, td + 10, td)>>) :
        a \in {10, 30}, b \in {10, 30}, c \in {10, 60}, d \in {10, 30},
        td \in {500, 510}, tip \in {1002, 1003}}

S2Init ==
    /\ peers \in {[p \in PeerIds |-> Some(submit_prove_request(DefaultPeerState,
                       ProveRequestNew(msg.last_header, S2Request)))] :
                   msg \in S2Responses}
    /\ last = None
    /\ fatal = FALSE
    /\ applied \in {Some([f |-> "S2", args |-> msg, result |-> None]) :
                     msg \in {m \in S2Responses :
                        \A p \in PeerIds :
                           Unwrap(Unwrap(peers[p]).prove_request).last_header
                              = m.last_header}}

\* The response of the scenario is given to the matcher, and to execute.
S2Execute(p) ==
    /\ IsSome(applied)
    /\ Unwrap(applied).f = "S2"
    /\ ~IsSome(Unwrap(applied).result)
    /\ LET msg == Unwrap(applied).args
       IN  \E step \in ExecuteSteps(Unwrap(get_state(peers, p)), msg) :
              /\ peers' = [peers EXCEPT ![p] = Some(step.peer_state)]
              /\ fatal' = step.aborted
              /\ applied' = Some([Unwrap(applied) EXCEPT !.result = Some(
                     [matched |-> check_if_response_is_matched(
                                     LastNBlocks, S2Request, msg.headers, msg.last_header),
                      status |-> step.status,
                      committed |-> step.committed])])
    /\ UNCHANGED last

S2Next == \E p \in PeerIds : S2Execute(p)

S2Spec == S2Init /\ [][S2Next]_vars

\* The scenario has run: what the matcher and execute returned.
S2Done == IsSome(applied) /\ Unwrap(applied).f = "S2" /\ IsSome(Unwrap(applied).result)

S2Result == Unwrap(Unwrap(applied).result)

\* C18, as stated: in scenario S2 the matcher returns (0, 4, 2) and the
\* response is committed.
C18_AsStated ==
    S2Done =>
        /\ S2Result.matched = Matched(0, 4, 2)
        /\ S2Result.committed

\* C18, amended: in scenario S2 the four headers below start_number count as
\* reorg headers, which are neither last_n_blocks many nor start at block 1:
\* the matcher returns InvalidReorgHeaders, execute returns that status and
\* nothing is committed.
C18_ScenarioS2 ==
    S2Done =>
        /\ Cardinality({i \in 1..6 : Unwrap(applied).args.headers[i].number
                                         < S2Request.start_number}) = 4
        /\ S2Result.matched = Mismatched("InvalidReorgHeaders")
        /\ S2Result.status = "InvalidReorgHeaders"
        /\ ~S2Result.committed
        /\ \A p \in PeerIds : ~IsSome(Unwrap(peers[p]).prove_state)

\* The scenario has run with each requested difficulty inside the block
\* sent for it.
C18_Witness ==
    /\ S2Done
    /\ \A i \in 1..3 :
          LET h == Unwrap(applied).args.headers[i]
          IN  h.parent_td < S2Request.difficulties[i]
              /\ S2Request.difficulties[i] <= h.total_difficulty
    /\ S2Result.status = "InvalidReorgHeaders"

\* -------------------------------------------- check_tau and verify_tau on
\* their own

\* The most epoch switches between the two epochs.
MaxSwitch == 2

\* The values of tau tried.
Taus == {TAU, TAU + 1}

\* The epoch difficulties tried: the small ones, where the division by tau
\* loses a remainder and the product with tau^n still passes U256Max, and
\* the largest ones.
TauDifficulties == {d \in 0..U256Max : d < 32 \/ d > U256Max - 16}

\* The arguments of check_tau: the two epoch difficulties, tau and the count
\* of epoch switches.
CheckTauInputs ==
    [start : TauDifficulties, end : TauDifficulties, tau : Taus, n : 0..MaxSwitch]

\* The arguments of verify_tau: two epochs and two compact targets.  The
\* compact targets decode to the difficulties 0, 8, 16, 32 and 64.
TauEpochs == [number : 0..MaxSwitch, index : {0}, length : {1, 3, 5}]

TauCompactTargets == {0, CompactA[1], CompactA[4], CompactT, 2 * CompactT}

VerifyTauInputs ==
    [start_epoch : TauEpochs, start_compact_target : TauCompactTargets,
     end_epoch : TauEpochs, end_compact_target : TauCompactTargets, tau : Taus]

TauInit ==
    /\ peers = [p \in PeerIds |-> None]
    /\ last = None
    /\ fatal = FALSE
    /\ applied \in
          {Some([f |-> "check_tau", args |-> x, result |-> None]) : x \in CheckTauInputs}
          \cup {Some([f |-> "verify_tau", args |-> x, result |-> None]) :
                   x \in VerifyTauInputs}

\* EpochDifficultyTrend::new and check_tau are applied to their arguments.
ApplyCheckTau ==
    /\ IsSome(applied)
    /\ Unwrap(applied).f = "check_tau"
    /\ ~IsSome(Unwrap(applied).result)
    /\ LET x == Unwrap(applied).args
       IN  applied' = Some([Unwrap(applied) EXCEPT !.result =
               Some(check_tau(EpochDifficultyTrend(x.start, x.end), x.tau, x.n))])
    /\ UNCHANGED <<peers, last, fatal>>

\* verify_tau is applied to its arguments.
ApplyVerifyTau ==
    /\ IsSome(applied)
    /\ Unwrap(applied).f = "verify_tau"
    /\ ~IsSome(Unwrap(applied).result)
    /\ LET x == Unwrap(applied).args
       IN  applied' = Some([Unwrap(applied) EXCEPT !.result =
               Some(verify_tau(x.start_epoch, x.start_compact_target,
                               x.end_epoch, x.end_compact_target, x.tau))])
    /\ UNCHANGED <<peers, last, fatal>>

TauNext == ApplyCheckTau \/ ApplyVerifyTau

TauSpec == TauInit /\ [][TauNext]_vars

\* check_tau has been applied: its arguments and its verdict.
CheckedTau ==
    /\ IsSome(applied)
    /\ Unwrap(applied).f = "check_tau"
    /\ IsSome(Unwrap(applied).result)

TArgs == Unwrap(applied).args

TResult == Unwrap(Unwrap(applied).result)

\* The bound of check_tau in exact arithmetic: start * tau^n >= end for an
\* increase, start / tau^n <= end for a decrease.
ExactBound(start, end, tau, n) ==
    IF start = end THEN TRUE
    ELSE IF start < end THEN start * (tau ^ n) >= end
    ELSE start <= end * (tau ^ n)

\* The bound with the quotient rounded down to an integer.
IntegerBound(start, end, tau, n) ==
    IF start = end THEN TRUE
    ELSE IF start < end THEN start * (tau ^ n) >= end
    ELSE start \div (tau ^ n) <= end

\* C19, as stated: check_tau is true exactly when the bound holds in exact
\* arithmetic; saturation and truncation never change the verdict.
C19_AsStated ==
    CheckedTau => (TResult <=> ExactBound(TArgs.start, TArgs.end, TArgs.tau, TArgs.n))

\* C19, amended: check_tau is true for an unchanged difficulty; for an
\* increase exactly when start * tau^n >= end in exact arithmetic, whether or
\* not the product saturates; for a decrease exactly when start / tau^n
\* rounded down is at most end, which accepts an end below the exact
\* quotient by less than one.
C19_IntegerBound ==
    CheckedTau => (TResult <=> IntegerBound(TArgs.start, TArgs.end, TArgs.tau, TArgs.n))

\* A decrease is accepted although the end is below the exact quotient.
C19_Witness ==
    /\ CheckedTau
    /\ TArgs.start > TArgs.end
    /\ TResult
    /\ ~ExactBound(TArgs.start, TArgs.end, TArgs.tau, TArgs.n)

\* verify_tau has been applied.
VerifiedTau ==
    /\ IsSome(applied)
    /\ Unwrap(applied).f = "verify_tau"
    /\ IsSome(Unwrap(applied).result)

\* The difficulty of an epoch: the difficulty of its blocks times its length.
EpochDifficulty(compact_target, epoch) ==
    U256Mul(compact_to_difficulty(compact_target), epoch.length)

MaxEpoch == 4

\* The epochs of the start header: the first and the last block of an epoch,
\* a later epoch, and an epoch whose index is not below its length.
TdStartEpochs ==
    {[number |-> 0, index |-> 0, length |-> 3], [number |-> 0, index |-> 2, length |-> 3],
     [number |-> 1, index |-> 0, length |-> 3], [number |-> 0, index |-> 2, length |-> 2]}

TdEndEpochs == [number : 0..MaxEpoch, index : {0, 2}, length : {3}]

\* The compact targets: the start header's decode to the difficulties 8, 16
\* and 128 at 8 bits, the end header's to 8, 16, 64 and 128.
TdStartCompactTargets == {CompactA[1], CompactA[4], CompactT \div 2}

TdEndCompactTargets == {CompactA[1], CompactA[4], CompactT, CompactT \div 2}

\* Only the difference of the two total difficulties is looked at once the
\* start is known not to exceed the end: the start is 0 with every end, or 8
\* with an end around it.
TdTotals ==
    {<<0, e>> : e \in 0..U256Max} \cup {<<8, e>> : e \in {0, 7, 8, 9, 16, 24}}

VerifyTotalDifficultyInputs ==
    {[start_epoch |-> se, start_compact_target |-> sc, start_total_difficulty |-> t[1],
      end_epoch |-> ee, end_compact_target |-> ec, end_total_difficulty |-> t[2],
      tau |-> TAU] :
        se \in TdStartEpochs, sc \in TdStartCompactTargets,
        ee \in TdEndEpochs, ec \in TdEndCompactTargets, t \in TdTotals}

TdInit ==
    /\ peers = [p \in PeerIds |-> None]
    /\ last = None
    /\ fatal = FALSE
    /\ applied \in {Some([f |-> "verify_total_difficulty", args |-> x, result |-> None]) :
                       x \in VerifyTotalDifficultyInputs}

\* verify_total_difficulty is applied to its arguments.
ApplyVerifyTotalDifficulty ==
    /\ IsSome(applied)
    /\ Unwrap(applied).f = "verify_total_difficulty"
    /\ ~IsSome(Unwrap(applied).result)
    /\ LET x == Unwrap(applied).args
       IN  applied' = Some([Unwrap(applied) EXCEPT !.result =
               Some(verify_total_difficulty(
                        x.start_epoch, x.start_compact_target, x.start_total_difficulty,
                        x.end_epoch, x.end_compact_target, x.end_total_difficulty, x.tau))])
    /\ UNCHANGED <<peers, last, fatal>>

TdSpec == TdInit /\ [][ApplyVerifyTotalDifficulty]_vars

\* verify_total_difficulty has been applied: its arguments and its result.
VerifiedTd ==
    /\ IsSome(applied)
    /\ Unwrap(applied).f = "verify_total_difficulty"
    /\ IsSome(Unwrap(applied).result)

DArgs == Unwrap(applied).args

DResult == Unwrap(Unwrap(applied).result)

\* The difference of the two total difficulties, the difficulty of a block of
\* the start epoch and of the end epoch, and the number of epoch switches.
DTotal == DArgs.end_total_difficulty - DArgs.start_total_difficulty

DStartBlock == compact_to_difficulty(DArgs.start_compact_target)

DEndBlock == compact_to_difficulty(DArgs.end_compact_target)

DSwitches == DArgs.end_epoch.number - DArgs.start_epoch.number

DLimitTerm(curr, kind, tau, j) ==
    IF kind = "Decreased" THEN curr \div (tau ^ j)
    ELSE IF curr * (tau ^ j) > U256Max THEN U256Max ELSE curr * (tau ^ j)

\* The sum of the epoch difficulties of the first `count` epochs of a group.
RECURSIVE DLimitSum(_, _, _, _)
DLimitSum(curr, kind, tau, count) ==
    IF count <= 0 THEN 0
    ELSE DLimitTerm(curr, kind, tau, count) + DLimitSum(curr, kind, tau, count - 1)

\* The sum of the epoch difficulties over the two groups of `details`, in
\* unbounded arithmetic.
DLimit(start_epoch_difficulty, tau, details) ==
    LET middle == IF details.start.count <= 0 THEN start_epoch_difficulty
                  ELSE DLimitTerm(start_epoch_difficulty, details.start.kind, tau,
                                  details.start.count)
    IN  DLimitSum(start_epoch_difficulty, details.start.kind, tau, details.start.count)
            + DLimitSum(middle, details.end.kind, tau, details.end.count)

\* The trend of the epoch difficulties of the two headers.
DTrend ==
    EpochDifficultyTrend(U256Mul(DStartBlock, DArgs.start_epoch.length),
                         U256Mul(DEndBlock, DArgs.end_epoch.length))

DExponent == calculate_tau_exponent(DTrend, DArgs.tau, DSwitches)

\* The blocks of the start epoch after the start header, and the unaligned
\* difficulty: those blocks and the blocks of the end epoch up to the end
\* header, in 256 bits.
DStartBlocks == DArgs.start_epoch.length - DArgs.start_epoch.index - 1

DUnaligned ==
    (DStartBlock * DStartBlocks + DEndBlock * (DArgs.end_epoch.index + 1)) % U256Modulus

\* The limits of the aligned difficulty, in unbounded arithmetic.
DAligned(limit) ==
    DLimit(DTrend.start, DArgs.tau,
           remove_last_epoch(split_epochs(DTrend, limit, DSwitches, Unwrap(DExponent))))

\* verify_total_difficulty got as far as the range check for two headers
\* N >= 1 epochs apart.
DAcrossEpochs ==
    /\ VerifiedTd
    /\ DArgs.start_total_difficulty <= DArgs.end_total_difficulty
    /\ DSwitches >= 1

OvHeader(number, compact_target, total_difficulty, parent_td) ==
    Header(<<"O", number>>, <<"O", number - 1>>, number, compact_target,
           total_difficulty, parent_td, {<<"O", i>> : i \in 0..(number - 1)})

\* The committed tip: block 2, the last block of epoch 0, with block
\* difficulty 16 at 8 bits.
OvProvedTip == OvHeader(2, CompactA[4], 3, 2)

OvProveState ==
    new_from_request(ProveRequestNew(OvProvedTip, Content(0, [difficulty_boundary |-> 0, difficulties |-> <<>>])),
                     <<>>, <<>>)

\* The request: from block 2 on, one difficulty, which falls into block 4.
OvContent == Content(2, [difficulty_boundary |-> 6, difficulties |-> <<5>>])

\* The tips a peer may claim: a block of epoch 2, 3 or 4, with one of two
\* compact targets and a total difficulty of its choice.
OvTips ==
    {OvHeader(number, compact_target, total_difficulty, total_difficulty - 1) :
        number \in (2 * 3 + LastNBlocks)..(MaxEpoch * 3 + 2),
        compact_target \in {CompactA[1], CompactA[4]},
        total_difficulty \in {3 + 24 * i : i \in 1..10}}

\* The response for a tip.
OvResponse(tip) ==
    Message(tip, "honest",
            <<OvHeader(4, CompactA[4], 5, 4)>> \o
            [i \in 1..LastNBlocks |->
                LET number == tip.number - LastNBlocks - 1 + i
                IN  OvHeader(number, tip.compact_target, 5 + number, 4 + number)])

OvInit ==
    /\ peers \in {[p \in PeerIds |-> Some(
                      [DefaultPeerState EXCEPT
                          !.prove_state = Some(OvProveState),
                          !.prove_request = Some(ProveRequestNew(tip, OvContent))])] :
                   tip \in OvTips}
    /\ last = None
    /\ fatal = FALSE
    /\ applied = None

\* execute on the response for the tip the peer is asked to prove.
OvExecute(p) ==
    /\ ~fatal
    /\ ~IsSome(applied)
    /\ LET peer_state == Unwrap(get_state(peers, p))
           msg == OvResponse(Unwrap(peer_state.prove_request).last_header)
       IN  \E step \in ExecuteSteps(peer_state, msg) :
              /\ peers' = [peers EXCEPT ![p] = Some(step.peer_state)]
              /\ fatal' = step.aborted
              /\ applied' = Some([f |-> "execute", pre |-> peer_state, msg |-> msg,
                                  status |-> step.status, committed |-> step.committed])
    /\ UNCHANGED last

OvNext == \E p \in PeerIds : OvExecute(p)

OvSpec == OvInit /\ [][OvNext]_vars

\* execute has run on the response: the peer's state before, the response,
\* and what the matcher returned for it.
OvDone == IsSome(applied) /\ Unwrap(applied).f = "execute"

OvPre == Unwrap(applied).pre

OvMsg == Unwrap(applied).msg

OvMatching ==
    check_if_response_is_matched(LastNBlocks, Unwrap(OvPre.prove_request).content,
                                 OvMsg.headers, OvMsg.last_header)

\* The epoch difficulties of the committed tip and of the new tip, and the
\* limits of the aligned difficulty between them in unbounded arithmetic.
OvTrend ==
    EpochDifficultyTrend(
        U256Mul(compact_to_difficulty(OvProvedTip.compact_target), OvProvedTip.epoch.length),
        U256Mul(compact_to_difficulty(OvMsg.last_header.compact_target),
                OvMsg.last_header.epoch.length))

OvSwitches == OvMsg.last_header.epoch.number - OvProvedTip.epoch.number

OvExponent == calculate_tau_exponent(OvTrend, TAU, OvSwitches)

OvAligned(limit) ==
    DLimit(OvTrend.start, TAU,
           remove_last_epoch(split_epochs(OvTrend, limit, OvSwitches, Unwrap(OvExponent))))

\* The response reaches the total difficulty check, and there the running
\* sum of a limit passes 256 bits.
OvOverflow ==
    /\ OvDone
    /\ OvMatching.ok /\ OvMatching.sampled_count # 0
    /\ CheckContinuity(OvMsg.headers, OvMatching) = "OK"
    /\ verify_mmr_proof(MmrActivatedEpoch, OvMsg.last_header, OvMsg.proof, OvMsg.headers) = "OK"
    /\ OvProvedTip.total_difficulty <= OvMsg.last_header.total_difficulty
    /\ OvSwitches >= 2
    /\ IsSome(OvExponent)
    /\ OvAligned("Min") > U256Max \/ OvAligned("Max") > U256Max

\* C23, as stated: when the running sum of epoch difficulties passes 256 bits
\* inside calculate_total_difficulty_limit, execute returns
\* InvalidTotalDifficulty and the process goes on.
C23_AsStated ==
    OvOverflow => Unwrap(applied).status = "InvalidTotalDifficulty" /\ ~fatal

\* The difficulty of an epoch with the product stopped at the largest value:
\* min(block difficulty * epoch length, 2^256 - 1).
SaturatedEpochDifficulty(compact_target, epoch) ==
    LET exact == compact_to_difficulty(compact_target) * epoch.length
    IN  IF exact > U256Max THEN U256Max ELSE exact

\* C24, as stated: the epoch difficulty that verify_tau computes is
\* min(block difficulty * epoch length, 2^256 - 1) for every compact target
\* and epoch length, so across epochs its verdict is the bound of check_tau on
\* the two saturated products.
C24_AsStated ==
    (VerifiedTau /\ TArgs.end_epoch.number > TArgs.start_epoch.number) =>
        /\ EpochDifficulty(TArgs.start_compact_target, TArgs.start_epoch)
              = SaturatedEpochDifficulty(TArgs.start_compact_target, TArgs.start_epoch)
        /\ EpochDifficulty(TArgs.end_compact_target, TArgs.end_epoch)
              = SaturatedEpochDifficulty(TArgs.end_compact_target, TArgs.end_epoch)
        /\ TResult.result =
              IntegerBound(
                  SaturatedEpochDifficulty(TArgs.start_compact_target, TArgs.start_epoch),
                  SaturatedEpochDifficulty(TArgs.end_compact_target, TArgs.end_epoch),
                  TArgs.tau, TArgs.end_epoch.number - TArgs.start_epoch.number)

\* ------------------------------------------------ verify_mmr_proof on its own

\* A block of chain A whose digest fails its own check.
D4 == [A(4) EXCEPT !.digest_ok = FALSE]

\* The arguments of verify_mmr_proof: the activation epoch, the last header
\* with or without a valid extra hash, one of the four kinds of proof, and up
\* to two headers of chain A, of chain B or with a failing digest.
MmrActivationEpochs == {MmrActivatedEpoch, MmrActivatedEpoch + 2}

MmrHeaderLists ==
    {<<>>} \cup {<<h>> : h \in ChainBlocks \cup {B4, B5, D4}}
           \cup {<<g, h>> : <<g, h>> \in
                    {x \in (ChainBlocks \cup {D4}) \X (ChainBlocks \cup {B5, D4}) :
                        x[1].number < x[2].number}}

VerifyMmrProofInputs ==
    [mmr_activated_epoch : MmrActivationEpochs, last_header : Tips \cup BadTips,
     raw_proof : ProofKinds, headers : MmrHeaderLists]

MmrInit ==
    /\ peers = [p \in PeerIds |-> None]
    /\ last = None
    /\ fatal = FALSE
    /\ applied \in {Some([f |-> "verify_mmr_proof", args |-> x, result |-> None]) :
                       x \in VerifyMmrProofInputs}

\* verify_mmr_proof is applied to its arguments.
ApplyVerifyMmrProof ==
    /\ IsSome(applied)
    /\ Unwrap(applied).f = "verify_mmr_proof"
    /\ ~IsSome(Unwrap(applied).result)
    /\ LET x == Unwrap(applied).args
       IN  applied' = Some([Unwrap(applied) EXCEPT !.result =
               Some(verify_mmr_proof(x.mmr_activated_epoch, x.last_header,
                                     x.raw_proof, x.headers))])
    /\ UNCHANGED <<peers, last, fatal>>

MmrSpec == MmrInit /\ [][ApplyVerifyMmrProof]_vars

\* verify_mmr_proof has been applied: its arguments and its result.
VerifiedMmr ==
    /\ IsSome(applied)
    /\ Unwrap(applied).f = "verify_mmr_proof"
    /\ IsSome(Unwrap(applied).result)

PArgs == Unwrap(applied).args

PResult == Unwrap(Unwrap(applied).result)

\* The last header is valid under the activation epoch, the digest of every
\* header passes its own check, and the verifier answers true.
PLastHeaderValid ==
    /\ PArgs.last_header.epoch.number >= PArgs.mmr_activated_epoch
    /\ PArgs.last_header.extra_hash_ok

PDigestsVerified == \A i \in 1..Len(PArgs.headers) : PArgs.headers[i].digest_ok

PVerifier == ProofVerify(PArgs.raw_proof, PArgs.last_header.chain_root, PArgs.headers)

\* C25: verify_mmr_proof returns Ok exactly when the last header is valid
\* under the activation epoch, the digest of every header passes its check
\* and the proof verifies the headers against the parent chain root of the
\* last header with result true; every other outcome, an error of the digest
\* check or of the verifier included, is InvalidProof.
C25_VerifyMmrProof ==
    VerifiedMmr =>
        /\ PResult \in {"OK", "InvalidProof"}
        /\ PResult = "OK" <=> (PLastHeaderValid /\ PDigestsVerified /\ PVerifier = "true")

\* The verifier raises an error for a valid last header and verified
\* digests: the status is InvalidProof.
C25_Witness ==
    /\ VerifiedMmr
    /\ PLastHeaderValid /\ PDigestsVerified
    /\ PArgs.headers # <<>>
    /\ PVerifier = "Err"
    /\ PResult = "InvalidProof"

\* ------------------------------------------------- claims on execute, again

\* Every adjacent pair of headers of the reorg prefix of the response of the
\* last call is parent-linked, and so is every adjacent pair of its last-n
\* headers.
ReorgPrefixLinked ==
    \A i \in 1..(Matching.reorg_count - 1) :
        is_parent_of(Response.headers[i], Response.headers[i + 1])

LastNLinked ==
    \A i \in (Matching.reorg_count + Matching.sampled_count + 1)..(Len(Response.headers) - 1) :
        is_parent_of(Response.headers[i], Response.headers[i + 1])

\* The response of the last call passes the checks that execute makes before
\* the continuity check.
ReachesContinuity ==
    /\ Answered
    /\ PassesMatcher
    /\ PassesPoW
    /\ (Request.skip_check_tau \/ TauOfResponse.status = "OK")

\* C26, as stated: a response is committed only if every adjacent pair of
\* headers of the whole reorg prefix and every adjacent pair of the last-n
\* headers is parent-linked, and a broken link between two adjacent headers
\* of the reorg prefix, its last two included, yields InvalidParentBlock.
C26_AsStated ==
    /\ (Answered /\ Call.committed) => ReorgPrefixLinked /\ LastNLinked
    /\ (ReachesContinuity /\ ~ReorgPrefixLinked) => Call.status = "InvalidParentBlock"

\* The pairs of headers that the continuity check of execute looks at are
\* parent-linked: the pairs of the reorg prefix without its last header, and
\* the pairs of the last-n headers.
CheckedLinks ==
    /\ \A i \in 1..(Matching.reorg_count - 2) :
          is_parent_of(Response.headers[i], Response.headers[i + 1])
    /\ LastNLinked

\* The TAU check returns an error for the response of the last call.
TauError == ~Request.skip_check_tau /\ TauOfResponse.status = "InvalidCompactTarget"

TauReturns == Request.skip_check_tau \/ TauOfResponse.status = "OK"

\* C27, as stated: execute returns the status of the first failing check in
\* the order matcher, PoW and continuity, MMR proof, tau and total
\* difficulty; a response with an invalid MMR proof is never answered with
\* InvalidCompactTarget, and one with a broken parent link never with
\* InvalidProof.
C27_AsStated ==
    Answered =>
        /\ ~PassesMatcher => Call.status \in {Matching.status, "Panic"}
        /\ (PassesMatcher /\ ~PassesPoW) => Call.status = "InvalidNonce"
        /\ (PassesMatcher /\ PassesPoW /\ ~(ReorgPrefixLinked /\ LastNLinked))
              => Call.status = "InvalidParentBlock"
        /\ (PassesMatcher /\ PassesPoW /\ ReorgPrefixLinked /\ LastNLinked /\ ~PassesProof)
              => Call.status = "InvalidProof"
        /\ ~PassesProof => Call.status # "InvalidCompactTarget"
        /\ ~(ReorgPrefixLinked /\ LastNLinked) => Call.status # "InvalidProof"

\* C27, amended: execute returns the status of the first failing check in the
\* order matcher, PoW, the error of the TAU check (InvalidCompactTarget),
\* continuity of the pairs it looks at, MMR proof, total difficulty; a TAU
\* bound that does not hold is acted on only after all of these.  So a
\* response whose MMR proof is invalid or whose parent link is broken is
\* answered with InvalidCompactTarget when its first sampled and its last
\* header share an epoch and differ in compact target, and a response with a
\* broken link among the pairs looked at is never answered with InvalidProof.
C27_OrderOfChecks ==
    Answered =>
        /\ ~PassesMatcher => Call.status \in {Matching.status, "Panic"}
        /\ (PassesMatcher /\ ~PassesPoW) => Call.status = "InvalidNonce"
        /\ (PassesMatcher /\ PassesPoW /\ TauError) => Call.status = "InvalidCompactTarget"
        /\ (PassesMatcher /\ PassesPoW /\ TauReturns /\ ~CheckedLinks)
              => Call.status = "InvalidParentBlock"
        /\ (PassesMatcher /\ PassesPoW /\ TauReturns /\ CheckedLinks /\ ~PassesProof)
              => Call.status = "InvalidProof"
        /\ (PassesMatcher /\ PassesPoW /\ TauReturns /\ CheckedLinks /\ PassesProof
               /\ CheckTotalDifficulty(Pre, Response.last_header, Matching) = "Err")
              => Call.status = "InvalidTotalDifficulty"
        /\ Call.status = "RequireRecheck"
              => PassesMatcher /\ PassesPoW /\ TauReturns /\ CheckedLinks /\ PassesProof
                 /\ PassesTotalDifficulty

\* A response with a forged proof and a broken parent link among its last-n
\* headers is answered with InvalidCompactTarget.
C27_Witness ==
    /\ Answered /\ PassesMatcher /\ PassesPoW
    /\ TauError
    /\ ~PassesProof
    /\ ~LastNLinked
    /\ Call.status = "InvalidCompactTarget"

\* -------------------------------------- execute without a previous prove state

\* A peer without a prove state holds a request that starts above genesis:
\* Peers::update_prove_request takes any request for a peer that has a slot.
RgRequests ==
    {ProveRequestNew(tip, Content(start_number, c)) :
        tip \in {A(5), A(6)}, start_number \in 1..4, c \in SampleChoices}

RgInit ==
    /\ peers \in {update_prove_request(add_peer([p \in PeerIds |-> None], q), q, r) :
                     q \in PeerIds, r \in RgRequests}
    /\ last = None
    /\ fatal = FALSE
    /\ applied = None

\* The responses for the requested tip: up to MaxResponse headers of chain A
\* with a proof that holds or a forged one.
RgMessages(request) ==
    {Message(request.last_header, pf, l) :
        pf \in {"honest", "forged"}, l \in ChainLists(MaxResponse)}

\* execute on one response of peer p.
RgExecute(p) ==
    /\ ~fatal
    /\ ~IsSome(last)
    /\ IsSome(get_state(peers, p))
    /\ LET peer_state == Unwrap(get_state(peers, p))
       IN  \E msg \in RgMessages(Unwrap(peer_state.prove_request)) :
           \E step \in ExecuteSteps(peer_state, msg) :
              /\ peers' = [peers EXCEPT ![p] = Some(step.peer_state)]
              /\ fatal' = step.aborted
              /\ last' = Some([peer |-> p, msg |-> msg, status |-> step.status,
                               pre |-> peers[p], reply |-> step.reply,
                               committed |-> step.committed, replayed |-> FALSE])
    /\ UNCHANGED applied

RgNext == \E p \in PeerIds : RgExecute(p)

RgSpec == RgInit /\ [][RgNext]_vars

\* The response of the last call has reorg headers, for a peer without a
\* prove state, and passes every check of execute.
ReorgWithoutProveState ==
    /\ Answered
    /\ ~IsSome(Pre.prove_state)
    /\ PassesMatcher
    /\ Matching.reorg_count > 0

ConsecutiveNumbers(headers) ==
    \A i \in 1..(Len(headers) - 1) : headers[i + 1].number = headers[i].number + 1

\* The last headers of a prove state are a run of blocks that ends right
\* before its tip.
SuffixBeforeTip(prove_state) ==
    /\ ConsecutiveNumbers(prove_state.last_headers)
    /\ prove_state.last_headers[Len(prove_state.last_headers)].number + 1
          = prove_state.last_header.number

\* The last call committed a prove state with last headers.
CommittedLastHeaders ==
    /\ IsSome(last)
    /\ Call.committed
    /\ Unwrap(Post.prove_state).last_headers # <<>>

\* C29, as stated: the last headers of every committed prove state are blocks
\* with consecutive numbers, the final one right before the tip, for
\* responses with and without sampled headers.
C29_AsStated ==
    CommittedLastHeaders => SuffixBeforeTip(Unwrap(Post.prove_state))

\* The headers at the front of the response with a total difficulty below
\* the boundary of the request.
MBeforeBoundary ==
    CHOOSE k \in 0..Len(MHeaders) :
        /\ \A j \in 1..k : MHeaders[j].total_difficulty
                              < MArgs.prev_request.difficulty_boundary
        /\ k < Len(MHeaders)
              => MHeaders[k + 1].total_difficulty >= MArgs.prev_request.difficulty_boundary

MRemaining == Len(MHeaders) - MReorg

\* The split of the headers after the reorg prefix, by the rule.
MSplit ==
    IF MRemaining <= MArgs.last_n_blocks THEN <<0, MRemaining>>
    ELSE IF Len(MHeaders) - MBeforeBoundary > MArgs.last_n_blocks
    THEN <<MBeforeBoundary - MReorg, Len(MHeaders) - MBeforeBoundary>>
    ELSE <<MRemaining - MArgs.last_n_blocks, MArgs.last_n_blocks>>

\* The counts of an Ok result are those of the rule.
SplitByRule ==
    /\ MResult.reorg_count = MReorg
    /\ <<MResult.sampled_count, MResult.last_n_count>> = MSplit

\* The response is last_n_blocks headers, the blocks from start_number up to
\* the one before the last header, without a reorg prefix.
LastNBlocksOnly ==
    /\ Len(MHeaders) = MArgs.last_n_blocks
    /\ ExactRange(MHeaders)

\* C30, as stated: the counts of an accepted response follow the rule of the
\* split, a response with sampled headers has at least last_n_blocks last-n
\* headers and one without sampled headers has at most last_n_blocks.
C30_AsStated ==
    (Matcher /\ MSorted /\ MResult.ok) =>
        /\ SplitByRule
        /\ MResult.sampled_count > 0 => MResult.last_n_count >= MArgs.last_n_blocks
        /\ MResult.sampled_count = 0 => MResult.last_n_count <= MArgs.last_n_blocks
        /\ LastNBlocksOnly => MResult = Matched(0, 0, MArgs.last_n_blocks)

\* C30, amended: the counts of an accepted response follow the rule of the
\* split; a response with sampled headers has at least last_n_blocks last-n
\* headers; one without sampled headers has at most last_n_blocks last-n
\* headers unless no header after the reorg prefix is below the boundary,
\* and then all the headers after the reorg prefix are last-n headers. A
\* response that is just the last_n_blocks blocks before the last header is
\* accepted with (0, 0, last_n_blocks). Where the rule gives a sampled count
\* below zero the matcher does not return.
C30_SplitRule ==
    (Matcher /\ MSorted) =>
        /\ MResult.ok =>
              /\ SplitByRule
              /\ MResult.sampled_count > 0 => MResult.last_n_count >= MArgs.last_n_blocks
              /\ MResult.sampled_count = 0 =>
                    \/ MResult.last_n_count <= MArgs.last_n_blocks
                    \/ /\ MBeforeBoundary = MReorg
                       /\ MResult.last_n_count = MRemaining
        /\ LastNBlocksOnly => MResult = Matched(0, 0, MArgs.last_n_blocks)
        /\ ((MReorg # 0 => ReorgHeadersFit) /\ MSplit[1] < 0) => MResult.status = "Panic"

\* A response without sampled headers is accepted with more than
\* last_n_blocks last-n headers.
C30_Witness ==
    /\ Matcher /\ MSorted /\ MResult.ok
    /\ MResult.sampled_count = 0
    /\ MResult.last_n_count > MArgs.last_n_blocks

\* ------------------------------- the functions of EpochDifficultyTrend alone

\* The arguments of check_tau and calculate_tau_exponent: the two epoch
\* difficulties, tau and the count of epoch switches (the limit).
TrendInputs ==
    [start : TauDifficulties, end : TauDifficulties, tau : Taus,
     n : 0..(MaxSwitch + 1)]

\* The arguments of split_epochs: a trend, the limit to estimate, n >= 1
\* epochs and an exponent k < n.
SplitEpochsInputs ==
    {[trend |-> EpochDifficultyTrend(d[1], d[2]), limit |-> l, n |-> n, k |-> k] :
        d \in {<<8, 8>>, <<8, 16>>, <<16, 8>>}, l \in {"Min", "Max"},
        n \in 1..(MaxSwitch + 4), k \in 0..(MaxSwitch + 3)}

\* The arguments of the limits of the total difficulty: the two epoch
\* difficulties, tau and n >= 2 epoch switches.
LimitInputs ==
    [start : TauDifficulties, end : TauDifficulties, tau : Taus,
     n : 2..(MaxSwitch + 2)]

TrendInit ==
    /\ peers = [p \in PeerIds |-> None]
    /\ last = None
    /\ fatal = FALSE
    /\ applied \in
          {Some([f |-> "tau", args |-> x, result |-> None]) : x \in TrendInputs}
          \cup {Some([f |-> "split_epochs", args |-> x, result |-> None]) :
                   x \in {y \in SplitEpochsInputs : y.k < y.n}}
          \cup {Some([f |-> "limits", args |-> x, result |-> None]) : x \in LimitInputs}

\* check_tau and calculate_tau_exponent are applied to the same trend, tau
\* and count.
ApplyTau ==
    /\ IsSome(applied)
    /\ Unwrap(applied).f = "tau"
    /\ ~IsSome(Unwrap(applied).result)
    /\ LET x == Unwrap(applied).args
           trend == EpochDifficultyTrend(x.start, x.end)
       IN  applied' = Some([Unwrap(applied) EXCEPT !.result =
               Some([check_tau |-> check_tau(trend, x.tau, x.n),
                     tau_exponent |-> calculate_tau_exponent(trend, x.tau, x.n)])])
    /\ UNCHANGED <<peers, last, fatal>>

\* split_epochs is applied to its arguments.
ApplySplitEpochs ==
    /\ IsSome(applied)
    /\ Unwrap(applied).f = "split_epochs"
    /\ ~IsSome(Unwrap(applied).result)
    /\ LET x == Unwrap(applied).args
       IN  applied' = Some([Unwrap(applied) EXCEPT !.result =
               Some(split_epochs(x.trend, x.limit, x.n, x.k))])
    /\ UNCHANGED <<peers, last, fatal>>

\* One limit of the aligned total difficulty, as verify_total_difficulty
\* computes it: the split, the split without its last epoch, and the sum.
AlignedLimit(trend, limit, start_epoch_difficulty, tau, n, k) ==
    LET split   == split_epochs(trend, limit, n, k)
        details == remove_last_epoch(split)
    IN  [split |-> split, details |-> details,
         limit |-> calculate_total_difficulty_limit(start_epoch_difficulty, tau, details)]

\* Step-1 and the limits of Step-2 of verify_total_difficulty for n >= 2.
ApplyLimits ==
    /\ IsSome(applied)
    /\ Unwrap(applied).f = "limits"
    /\ ~IsSome(Unwrap(applied).result)
    /\ LET x == Unwrap(applied).args
           trend == EpochDifficultyTrend(x.start, x.end)
           k == calculate_tau_exponent(trend, x.tau, x.n)
       IN  applied' = Some([Unwrap(applied) EXCEPT !.result =
               Some(IF IsSome(k)
                    THEN [k |-> k,
                          min |-> Some(AlignedLimit(trend, "Min", x.start, x.tau, x.n, Unwrap(k))),
                          max |-> Some(AlignedLimit(trend, "Max", x.start, x.tau, x.n, Unwrap(k)))]
                    ELSE [k |-> k, min |-> None, max |-> None])])
    /\ UNCHANGED <<peers, last, fatal>>

TrendNext == ApplyTau \/ ApplySplitEpochs \/ ApplyLimits

TrendSpec == TrendInit /\ [][TrendNext]_vars

\* check_tau and calculate_tau_exponent have been applied.
AppliedTau ==
    /\ IsSome(applied)
    /\ Unwrap(applied).f = "tau"
    /\ IsSome(Unwrap(applied).result)

\* The exponent k fits: start * tau^(k+1) >= end for an increase,
\* start / tau^(k+1) <= end, the quotient an integer, for a decrease.
ExponentFits(start, end, tau, k) ==
    IF start < end THEN start * (tau ^ (k + 1)) >= end
    ELSE start \div (tau ^ (k + 1)) <= end

\* The exponents below the limit that fit.
FittingExponents(start, end, tau, limit) ==
    {k \in 0..(limit - 1) : ExponentFits(start, end, tau, k)}

AppliedSplitEpochs ==
    /\ IsSome(applied)
    /\ Unwrap(applied).f = "split_epochs"
    /\ IsSome(Unwrap(applied).result)

\* The counts each arm of split_epochs computes, and the differences it
\* takes on the way: none is below zero.
SplitWithoutUnderflow ==
    LET x == TArgs
    IN  /\ TResult.start.count >= 0
        /\ TResult.end.count >= 0
        /\ x.trend.kind # "Unchanged" => x.n - x.k >= 0

\* C32: for every trend, n >= 1 and 0 <= k < n, split_epochs for Min and for
\* Max returns two groups whose counts add up to n, computed without a
\* subtraction below zero; Min is a Decreased group then an Increased one,
\* Max an Increased group then a Decreased one.
C32_SplitEpochs ==
    AppliedSplitEpochs =>
        /\ TResult.start.count + TResult.end.count = TArgs.n
        /\ total_epochs_count(TResult) = TArgs.n
        /\ SplitWithoutUnderflow
        /\ TArgs.limit = "Min" =>
              TResult.start.kind = "Decreased" /\ TResult.end.kind = "Increased"
        /\ TArgs.limit = "Max" =>
              TResult.start.kind = "Increased" /\ TResult.end.kind = "Decreased"

\* A changed trend with the largest exponent, k = n - 1, leaves no epoch to
\* the second group of the Max split.
C32_Witness ==
    /\ AppliedSplitEpochs
    /\ TArgs.trend.kind = "Increased"
    /\ TArgs.limit = "Max"
    /\ TArgs.k = TArgs.n - 1
    /\ TArgs.k > 0
    /\ TResult.end.count = 0

\* C38: for every trend, tau >= 2 and N >= 0, check_tau(tau, N) is true
\* exactly when calculate_tau_exponent(tau, N) returns an exponent.
C38_SameBound ==
    (AppliedTau /\ TArgs.tau >= 2) =>
        (TResult.check_tau <=> IsSome(TResult.tau_exponent))

\* The two agree on a changed difficulty that is within the bound only with
\* all the N switches, and on one that is not within it.
C38_Witness ==
    /\ AppliedTau
    /\ TArgs.start # TArgs.end
    /\ TArgs.n > 1
    /\ \/ TResult.check_tau /\ TResult.tau_exponent = Some(TArgs.n - 1)
       \/ ~TResult.check_tau /\ TResult.tau_exponent = None

\* The limits of the total difficulty have been computed for a trend within
\* the tau bound.
AppliedLimits ==
    /\ IsSome(applied)
    /\ Unwrap(applied).f = "limits"
    /\ IsSome(Unwrap(applied).result)
    /\ IsSome(TResult.k)

LimitMin == Unwrap(TResult.min)

LimitMax == Unwrap(TResult.max)

\* remove_last_epoch took the epoch from a group that had one: no count of
\* the details is below zero and one epoch is gone.
RemovedFromGroup(limit) ==
    /\ limit.details.start.count >= 0
    /\ limit.details.end.count >= 0
    /\ limit.details.start.count + limit.details.end.count = TArgs.n - 1
    /\ limit.split.end.count = 0 => limit.split.start.count > 0

\* C39: for every trend, N >= 2 and the exponent that calculate_tau_exponent
\* returns, remove_last_epoch never subtracts from a zero count, and when
\* neither sum overflows the lower limit is at most the upper limit.
C39_LimitsOrdered ==
    (AppliedLimits /\ TArgs.n >= 2) =>
        /\ RemovedFromGroup(LimitMin)
        /\ RemovedFromGroup(LimitMax)
        /\ (~LimitMin.limit.overflow /\ ~LimitMax.limit.overflow)
              => LimitMin.limit.total <= LimitMax.limit.total

\* The last epoch is taken from the first group, the second one being
\* empty, and the limits are computed without overflow and differ.
C39_Witness ==
    /\ AppliedLimits
    /\ LimitMax.split.end.count = 0
    /\ ~LimitMin.limit.overflow /\ ~LimitMax.limit.overflow
    /\ LimitMin.limit.total < LimitMax.limit.total

\* ------------------------------------------ execute after a committed proof

\* The last headers a prove state for block n of the chain may hold: none,
\* or the blocks right before its tip, at most LastNBlocks of them.
LhLastHeaders(n) ==
    {<<>>} \cup
    {[i \in 1..c |-> A(n - c + i - 1)] : c \in 1..(IF n < LastNBlocks THEN n ELSE LastNBlocks)}

\* The prove states for the blocks 1..4 of the chain.
LhProveStates ==
    UNION {{new_from_request(ProveRequestNew(A(n), Content(0, c)), <<>>, lh) :
               c \in SampleChoices, lh \in LhLastHeaders(n)} : n \in 1..4}

\* A peer with a committed prove state holds a request for a later tip that
\* starts at the block of the prove state.
LhInit ==
    /\ peers \in
          {update_prove_request(
               PeersCommitProveState(add_peer([p \in PeerIds |-> None], q), q, ps), q,
               ProveRequestNew(tip, Content(ps.last_header.number, c))) :
             q \in PeerIds, ps \in LhProveStates, tip \in {A(5), A(6)},
             c \in SampleChoices}
    /\ last = None
    /\ fatal = FALSE
    /\ applied = None

LhSpec == LhInit /\ [][RgNext]_vars

\* The final n elements of a sequence, all of them when it has fewer.
FinalOf(seq, n) ==
    IF Len(seq) <= n THEN seq ELSE SubSeq(seq, Len(seq) - n + 1, Len(seq))

\* The last call committed the response to the peer's request.
CommittedResponse == OnRequest /\ Call.committed /\ PassesMatcher

\* The headers that come before the new last-n headers when those are fewer
\* than last_n_blocks: the reorg headers, or else the last headers of the
\* previous prove state.
OlderLastHeaders ==
    IF Matching.reorg_count > 0 THEN SubSeq(Response.headers, 1, Matching.reorg_count)
    ELSE IF IsSome(Pre.prove_state) THEN Unwrap(Pre.prove_state).last_headers
    ELSE <<>>

\* C33: the last_headers of a committed prove state are the final
\* last_n_blocks headers of the response when last_n_count >= last_n_blocks;
\* otherwise the new last-n headers after the final
\* last_n_blocks - last_n_count headers of the previous last_headers, or of
\* the reorg headers when there are some, and the new last-n headers alone
\* when there is nothing older; they are never more than last_n_blocks.
C33_LastHeaders ==
    CommittedResponse =>
        LET stored == Unwrap(Post.prove_state).last_headers
            new_last_n == FinalOf(Response.headers, Matching.last_n_count)
        IN  /\ Matching.last_n_count >= LastNBlocks
                  => stored = FinalOf(Response.headers, LastNBlocks)
            /\ Matching.last_n_count < LastNBlocks
                  => stored = FinalOf(OlderLastHeaders, LastNBlocks - Matching.last_n_count)
                                 \o new_last_n
            /\ (Matching.last_n_count < LastNBlocks /\ OlderLastHeaders = <<>>)
                  => stored = new_last_n
            /\ Len(stored) <= LastNBlocks

\* Fewer new last-n headers than last_n_blocks are committed after a part of
\* the last headers of the previous prove state.
C33_Witness ==
    /\ CommittedResponse
    /\ Matching.reorg_count = 0
    /\ Matching.last_n_count > 0
    /\ Matching.last_n_count < LastNBlocks
    /\ IsSome(Pre.prove_state)
    /\ Len(Unwrap(Pre.prove_state).last_headers) > LastNBlocks - Matching.last_n_count
    /\ Len(Unwrap(Post.prove_state).last_headers) = LastNBlocks

\* The matcher takes the branch that looks at the difficulty boundary.
BoundaryBranch == MRemaining > MArgs.last_n_blocks

\* C34, as stated: for every non-empty, strictly increasing list of headers
\* the matcher returns Ok or an error status; where it looks at the
\* difficulty boundary, before_boundary_count >= reorg_count, so that
\* sampled_count is never below zero.
C34_AsStated ==
    (Matcher /\ MSorted) =>
        /\ MResult.status # "Panic"
        /\ (BoundaryBranch /\ (MReorg # 0 => ReorgHeadersFit))
              => MBeforeBoundary >= MReorg

\* C35, as stated: with start_td <= end_td verify_total_difficulty returns
\* Ok or Err; with equal epoch numbers and the end index below the start
\* index, or with the end epoch number below the start epoch number, it
\* returns Err, and no subtraction goes below zero.
C35_AsStated ==
    (VerifiedTd /\ DArgs.start_total_difficulty <= DArgs.end_total_difficulty) =>
        /\ DResult \in {"Ok", "Err"}
        /\ (DSwitches = 0 /\ DArgs.end_epoch.index < DArgs.start_epoch.index)
              => DResult = "Err"
        /\ DSwitches < 0 => DResult = "Err"

\* ---------------------------------------- rechecks for one advertised tip

\* Chain K raises the block difficulty from 8 to 32 at the first epoch switch,
\* more than TAU allows for one switch. KX4 is block 4 of another branch with
\* the same difficulties.
CompactK == <<CompactA[1], CompactA[1], CompactA[1],
              2 * CompactT, 2 * CompactT, 2 * CompactT>>

RECURSIVE TdK(_)

TdK(n) == IF n < 0 THEN 0 ELSE TdK(n - 1) + compact_to_difficulty(CompactK[n + 1])

HashK(n) == <<"K0", "K1", "K2", "K3", "K4", "K5">>[n + 1]

K(n) ==
    Header(HashK(n), IF n = 0 THEN "none" ELSE HashK(n - 1), n, CompactK[n + 1],
           TdK(n), TdK(n - 1), {HashK(i) : i \in 0..(n - 1)})

KX3 ==
    Header("KX3", HashK(2), 3, CompactK[4], TdK(3), TdK(2), {HashK(i) : i \in 0..2})

KX4 ==
    Header("KX4", "KX3", 4, CompactK[5], TdK(4), TdK(3),
           {HashK(i) : i \in 0..2} \cup {"KX3"})

\* The responses for the tip: up to MaxHeaders headers of chain K below the
\* tip, in increasing order, with a proof that holds or a forged one.
RkLists ==
    {l \in UNION {[1..n -> {K(i) : i \in 0..4}] : n \in 0..MaxHeaders} :
        \A i \in 1..(Len(l) - 1) : l[i].number < l[i + 1].number}

RkMessages == {Message(K(5), pf, l) : pf \in {"honest", "forged"}, l \in RkLists}

\* The peer has a prove state for KX4 and the client has asked it for the
\* proof of K(5).
RkInit ==
    /\ peers \in
          {update_prove_request(
               PeersCommitProveState(
                   add_peer([p \in PeerIds |-> None], q), q,
                   new_from_request(ProveRequestNew(KX4, Content(0, c)), <<>>, <<KX3>>)),
               q, ProveRequestNew(K(5), Content(KX4.number, d))) :
             q \in PeerIds, c \in SampleChoices, d \in SampleChoices}
    /\ last = None
    /\ fatal = FALSE
    /\ applied = None

\* execute on one response of peer p for the tip, while its request is
\* outstanding.
RkExecute(p) ==
    /\ ~fatal
    /\ IsSome(get_state(peers, p))
    /\ LET peer_state == Unwrap(get_state(peers, p))
       IN  /\ IsSome(peer_state.prove_request)
           /\ \E msg \in RkMessages :
              \E step \in ExecuteSteps(peer_state, msg) :
                 /\ peers' = [peers EXCEPT ![p] = Some(step.peer_state)]
                 /\ fatal' = step.aborted
                 /\ last' = Some([peer |-> p, msg |-> msg, status |-> step.status,
                                  pre |-> peers[p], reply |-> step.reply,
                                  committed |-> step.committed, replayed |-> FALSE])
    /\ UNCHANGED applied

RkNext == \E p \in PeerIds : RkExecute(p)

RkSpec == RkInit /\ [][RkNext]_vars

\* The peer keeps answering while its request is outstanding.
RkFairSpec == RkSpec /\ WF_vars(RkNext)

\* The last response did not pass a check other than the TAU check, or the
\* content of the next request could not be built.
RkNotPassed ==
    /\ IsSome(last)
    /\ ~Unwrap(last).committed
    /\ Unwrap(last).status # "RequireRecheck"

\* C36: a peer that answers every request for a fixed tip with a response
\* passing all checks other than the TAU check eventually reaches a commit or
\* a fatal termination.
C36_AsStated == <>(fatal \/ RkNotPassed \/ (IsSome(last) /\ Unwrap(last).committed))

\* The last call returned OK for a response to the tip of the peer's request.
AnsweredOK == Answered /\ Call.status = "OK"

\* A prove state for the tip of the response is committed and the peer waits
\* for no proof of that tip any more.
CommittedForTip ==
    /\ Call.committed
    /\ IsSome(Post.prove_state)
    /\ Unwrap(Post.prove_state).last_header = Response.last_header
    /\ Post.prove_request = None
    /\ ~ResolveRequest(Post, Response.last_header).found

\* C37: OK for a response to the tip of the outstanding request means that a
\* prove state for that tip is committed and the request is gone; OK is never
\* returned with the request pending and nothing committed.
C37_AsStated == AnsweredOK => CommittedForTip

\* C37, amended: OK means the commit, or that the TAU check alone failed or
\* the commit detected a long fork and no new request could be built: then
\* nothing is sent and the peer's state is as it was, its request pending.
C37_CommittedOrNothing ==
    AnsweredOK =>
        \/ CommittedForTip
        \/ /\ OnlyTauFails \/ LongForkOnCommit
           /\ ~Call.committed
           /\ Call.reply = None
           /\ Untouched
           /\ ResolveRequest(Post, Response.last_header).found

C37_Witness == AnsweredOK /\ CommittedForTip /\ IsSome(Pre.prove_state)

\* ------------------------------- SendTransactionsProofProcess::execute

\* The transactions a client may ask a proof for.
TxHashes == {"t1", "t2"}

\* The request for the proofs of transactions: the tip it was made for and
\* the hashes asked for.
TxsProofRequest(last_hash, tx_hashes) ==
    [last_hash |-> last_hash, tx_hashes |-> tx_hashes]

\* A peer's state with the slot of its transactions-proof request.
TxsPeerState(txs_proof_request) ==
    [prove_request |-> None, prove_request_for_trusted_state |-> None,
     prove_state |-> None, txs_proof_request |-> txs_proof_request]

\* Peers::update_txs_proof_request: nothing without the peer. The variant
\* keeps the request the peer has.
update_txs_proof_request_kept(ps, index, request) ==
    IF IsSome(ps[index]) /\ IsSome(request)
    THEN [ps EXCEPT ![index] =
             Some([Unwrap(ps[index]) EXCEPT !.txs_proof_request = request])]
    ELSE ps

update_txs_proof_request(ps, index, request) ==
    IF IsSome(ps[index])
    THEN [ps EXCEPT ![index] =
             Some([Unwrap(ps[index]) EXCEPT !.txs_proof_request = request])]
    ELSE ps

\* A filtered block: its header, the hashes of its transactions, and whether
\* its merkle proof and witnesses root give the header's transactions root.
FilteredBlock(header, transactions, merkle_ok) ==
    [header |-> header, transactions |-> transactions, merkle_ok |-> merkle_ok]

FilteredBlocks ==
    {FilteredBlock(h, txs, ok) :
        h \in {A(3), A(4), W5},
        txs \in {<<>>, <<"t1">>, <<"t2">>, <<"t1", "t2">>},
        ok \in BOOLEAN}

\* SendTransactionsProof
TxsMessage(last_header, proof, filtered_blocks, missing_tx_hashes) ==
    [last_header |-> last_header, proof |-> proof,
     filtered_blocks |-> filtered_blocks, missing_tx_hashes |-> missing_tx_hashes]

TxsMessages ==
    {TxsMessage(t, pf, bs, ms) :
        t \in {A(6), B6, X6},
        pf \in {"empty", "honest", "forged"},
        bs \in {<<>>} \cup {<<b>> : b \in {x \in FilteredBlocks : x.header # A(3)}}
               \cup {<<b, c>> :
                        b \in {x \in FilteredBlocks :
                                  x.header = A(3) /\ x.transactions = <<"t1">>},
                        c \in {x \in FilteredBlocks :
                                  x.header = A(4) /\ x.transactions = <<"t2">>}},
        ms \in {<<>>, <<"t2">>}}

\* The hashes of the transactions of the filtered blocks, block after block.
RECURSIVE ReceivedTxHashes(_)

ReceivedTxHashes(filtered_blocks) ==
    IF filtered_blocks = <<>> THEN <<>>
    ELSE Head(filtered_blocks).transactions \o ReceivedTxHashes(Tail(filtered_blocks))

Elements(seq) == {seq[i] : i \in 1..Len(seq)}

\* The request's check_tx_hashes: every hash asked for is received or
\* reported missing, and nothing else is.
check_tx_hashes(request, received_tx_hashes, missing_tx_hashes) ==
    /\ Cardinality(request.tx_hashes) = Len(received_tx_hashes) + Len(missing_tx_hashes)
    /\ request.tx_hashes = Elements(received_tx_hashes) \cup Elements(missing_tx_hashes)

\* One way execute_internally can end: the peer's state, the status and the
\* transactions stored.
TxsStep(peer_state, status, stored) ==
    [peer_state |-> peer_state, status |-> status, stored |-> stored]

\* The pairs of transaction and block that the loop over the verified
\* filtered blocks hands to add_transaction.
VerifiedTransactions(filtered_blocks) ==
    {<<filtered_blocks[i].transactions[j], filtered_blocks[i].header.hash>> :
        <<i, j>> \in {x \in (1..Len(filtered_blocks)) \X (1..2) :
                         x[2] <= Len(filtered_blocks[x[1]].transactions)}}

\* execute_internally for a peer that has a state. add_transaction tells
\* whether the transaction is still being fetched: the stored transactions
\* are any of the verified ones.
ExecuteInternally(peer_state, msg) ==
    LET headers == [i \in 1..Len(msg.filtered_blocks) |-> msg.filtered_blocks[i].header]
        received_tx_hashes == ReceivedTxHashes(msg.filtered_blocks)
    IN  IF ~IsSome(peer_state.txs_proof_request)
        THEN {TxsStep(peer_state, "PeerIsNotOnProcess", {})}
        ELSE LET original_request == Unwrap(peer_state.txs_proof_request)
             IN  IF original_request.last_hash # msg.last_header.hash
                 THEN IF /\ msg.proof = "empty"
                         /\ msg.filtered_blocks = <<>>
                         /\ msg.missing_tx_hashes = <<>>
                      THEN {TxsStep(s.peer_state, s.status, {}) :
                               s \in NewLastStateSteps(peer_state, msg.last_header)}
                      ELSE {TxsStep(peer_state, "UnexpectedResponse", {})}
                 ELSE IF ~check_tx_hashes(original_request, received_tx_hashes,
                                          msg.missing_tx_hashes)
                 THEN {TxsStep(peer_state, "UnexpectedResponse", {})}
                 ELSE IF check_pow_for_headers(headers) # "OK"
                 THEN {TxsStep(peer_state, check_pow_for_headers(headers), {})}
                 ELSE IF verify_mmr_proof(MmrActivatedEpoch, msg.last_header,
                                          msg.proof, headers) # "OK"
                 THEN {TxsStep(peer_state, "InvalidProof", {})}
                 ELSE IF \E i \in 1..Len(msg.filtered_blocks) :
                            ~msg.filtered_blocks[i].merkle_ok
                 THEN {TxsStep(peer_state, "InvalidProof", {})}
                 ELSE {TxsStep(peer_state, "OK", stored) :
                          stored \in SUBSET VerifiedTransactions(msg.filtered_blocks)}

\* A peer has connected or not, and waits for no proof of transactions.
TxsInit ==
    /\ peers \in {[p \in PeerIds |-> None], [p \in PeerIds |-> Some(TxsPeerState(None))]}
    /\ last = None
    /\ fatal = FALSE
    /\ applied = None

\* The client asks peer p for the proofs of transactions.
GetTransactionsProof(p) ==
    /\ IsSome(get_state(peers, p))
    /\ ~IsSome(Unwrap(get_state(peers, p)).txs_proof_request)
    /\ \E tip \in {A(6)}, tx_hashes \in (SUBSET TxHashes) \ {{}} :
          peers' = update_txs_proof_request(peers, p,
                       Some(TxsProofRequest(tip.hash, tx_hashes)))
    /\ last' = None
    /\ UNCHANGED <<fatal, applied>>

\* The status of the last call if it ran on an outstanding request.
FirstStatus ==
    IF /\ IsSome(last)
       /\ IsSome(Unwrap(last).pre)
       /\ IsSome(Unwrap(Unwrap(last).pre).txs_proof_request)
    THEN Some(Unwrap(last).status)
    ELSE None

\* SendTransactionsProofProcess::execute on a message of peer p. The record
\* of the call holds the status of the call before it if that one ran on an
\* outstanding request and no request was sent since: the call is then on a
\* second response to that request.
TxsExecute(p) ==
    \E msg \in TxsMessages :
        IF ~IsSome(get_state(peers, p))
        THEN /\ peers' = update_txs_proof_request(peers, p, None)
             /\ last' = Some([peer |-> p, msg |-> msg, status |-> "PeerStateIsNotFound",
                              pre |-> peers[p], stored |-> {},
                              first |-> FirstStatus])
             /\ UNCHANGED <<fatal, applied>>
        ELSE \E step \in ExecuteInternally(Unwrap(get_state(peers, p)), msg) :
             /\ peers' = update_txs_proof_request(
                             [peers EXCEPT ![p] = Some(step.peer_state)], p, None)
             /\ last' = Some([peer |-> p, msg |-> msg, status |-> step.status,
                              pre |-> peers[p], stored |-> step.stored,
                              first |-> FirstStatus])
             /\ UNCHANGED <<fatal, applied>>

TxsNext == \E p \in PeerIds : GetTransactionsProof(p) \/ TxsExecute(p)

TxsSpec == TxsInit /\ [][TxsNext]_vars

\* The checks of execute_internally that come before the transactions of the
\* response of the last call are stored.
TxsChecksPassed ==
    /\ IsSome(Call.pre)
    /\ IsSome(Pre.txs_proof_request)
    /\ LET request == Unwrap(Pre.txs_proof_request)
           blocks == Call.msg.filtered_blocks
       IN  /\ request.last_hash = Call.msg.last_header.hash
           /\ check_tx_hashes(request, ReceivedTxHashes(blocks),
                              Call.msg.missing_tx_hashes)
           /\ \A i \in 1..Len(blocks) :
                 /\ blocks[i].header.pow_ok
                 /\ blocks[i].merkle_ok
                 /\ blocks[i].header.digest_ok
                 /\ blocks[i].header.hash \in Call.msg.last_header.chain_root
           /\ Call.msg.proof # "forged"
           /\ is_valid(Call.msg.last_header, MmrActivatedEpoch)

\* C40: after SendTransactionsProofProcess::execute the peer waits for no
\* proof of transactions, whatever the status; a second response to the same
\* request gets PeerIsNotOnProcess; and transactions are stored only from a
\* response that passed every check.
C40_RequestCleared ==
    IsSome(last) =>
        /\ IsSome(peers[Call.peer]) => Post.txs_proof_request = None
        /\ IsSome(Call.first) =>
              Call.status = "PeerIsNotOnProcess" /\ Call.stored = {}
        /\ Call.stored # {} => Call.status = "OK" /\ TxsChecksPassed

C40_Witness ==
    /\ IsSome(last)
    /\ Call.first = Some("InvalidProof")
    /\ Call.status = "PeerIsNotOnProcess"
    /\ Post.txs_proof_request = None
    /\ Call.msg.filtered_blocks # <<>>

====
